---- MODULE Spec2Model ----
(***************************************************************************)
(* The conversational RAG platform: the retrievers (BaseRetriever,         *)
(* SimpleRetriever, QueryRewritingRetriever, HybridRetriever), the         *)
(* CitationHandler, the QAChain, the /query routes and the IndexingChain   *)
(* with the PineconeVectorStore.                                           *)
(*                                                                         *)
(* Python dicts are functions from key strings to values, Python lists are *)
(* sequences, None is the empty sequence and Some(x) is <<x>>.  A text is  *)
(* the sequence of its whitespace-separated words.  A query string is its  *)
(* one-character words, single spaces between them, and pad trailing       *)
(* spaces.  Scores are exact rationals [n, d] (the code uses floats;       *)
(* rounding is not modelled).  An answer text, where its characters        *)
(* matter, is the sequence of its characters.  A transcript is the         *)
(* sequence of its blocks of 500 characters.                               *)
(***************************************************************************)
EXTENDS Integers, Sequences, FiniteSets, TLC

VARIABLES
    sim,      \* vector store: similarity score the index reports per stored vector
    inst,     \* the HybridRetriever instance (None before construction)
    ctor,     \* the constructor call: its status ("none", "ok", "ValueError"),
              \* its arguments and whether it logged the weight warning
    calls,    \* per caller: the retrieve call in progress or last finished
    cite,     \* the CitationHandler call: the method, its arguments, its result
    qa,       \* the QAChain in use (None before construction) and the last
              \* request made of it or of a /query route
    ix        \* the vectors the index holds, per video the chunks of its last
              \* successful index_video run, and the last indexing operation

vars == <<sim, inst, ctor, calls, cite, qa, ix>>

----------------------------------------------------------------------------
(* Bounds *)

MaxTopK == 2

Callers == {"c1", "c2"}

----------------------------------------------------------------------------
(* Options, dicts, rationals *)

None == <<>>
Some(x) == <<x>>
IsNone(o) == Len(o) = 0
TheVal(o) == o[1]

Get(r, key, default) == IF key \in DOMAIN r THEN r[key] ELSE default

Put(r, key, val) ==
    [x \in (DOMAIN r) \cup {key} |-> IF x = key THEN val ELSE r[x]]

Abs(x) == IF x < 0 THEN -x ELSE x

RECURSIVE GCD(_, _)
GCD(a, b) == IF b = 0 THEN a ELSE GCD(b, a % b)

Rat(n, d) ==
    LET s == IF d < 0 THEN -1 ELSE 1
        g == GCD(Abs(n), Abs(d))
    IN  [n |-> (s * n) \div g, d |-> (s * d) \div g]

RInt(i) == [n |-> i, d |-> 1]
Zero == RInt(0)
RAdd(a, b) == Rat(a.n * b.d + b.n * a.d, a.d * b.d)
RSub(a, b) == Rat(a.n * b.d - b.n * a.d, a.d * b.d)
RMul(a, b) == Rat(a.n * b.n, a.d * b.d)
RDiv(a, b) == Rat(a.n * b.d, a.d * b.n)
RLess(a, b) == a.n * b.d < b.n * a.d
RLeq(a, b) == a.n * b.d <= b.n * a.d

SeqMap(Op(_), s) == [i \in 1..Len(s) |-> Op(s[i])]
Take(s, k) == SubSeq(s, 1, IF k < Len(s) THEN k ELSE Len(s))
Range(s) == {s[i] : i \in 1..Len(s)}

RMin(s) == CHOOSE x \in Range(s) : \A y \in Range(s) : RLeq(x, y)
RMax(s) == CHOOSE x \in Range(s) : \A y \in Range(s) : RLeq(y, x)

(* list.sort(key=..., reverse=True) and sorted(..., reverse=True): a stable
   descending sort.  The result lists the positions of keys, highest key
   first, equal keys in their original order. *)
RankDesc(keys, i) ==
    Cardinality({j \in 1..Len(keys) :
        RLess(keys[i], keys[j]) \/ (keys[j] = keys[i] /\ j < i)})

SortedDescIdx(keys) ==
    [p \in 1..Len(keys) |-> CHOOSE i \in 1..Len(keys) : RankDesc(keys, i) = p - 1]

----------------------------------------------------------------------------
(* The vector store (external): four stored vectors of two videos *)

Lower(w) == IF w = "A" THEN "a" ELSE w

StoredVectors == <<
    [id |-> "v1_0", video_id |-> "v1", chunk_id |-> 0, text |-> <<"A", "b">>],
    [id |-> "v1_1", video_id |-> "v1", chunk_id |-> 1, text |-> <<"b", "c">>],
    [id |-> "v1_2", video_id |-> "v1", chunk_id |-> 2, text |-> <<"b", "d", "d">>],
    [id |-> "v2_0", video_id |-> "v2", chunk_id |-> 0, text |-> <<"d", "c">>] >>

NumVectors == Len(StoredVectors)

(* similarity scores the index may report for the four vectors: all equal,
   ties in the middle, strictly increasing in store order, alternating *)
SimTables == {<<2, 2, 2, 2>>, <<3, 2, 2, 1>>, <<1, 2, 3, 4>>, <<2, 1, 2, 1>>}

Filters == {None, Some("v1"), Some("v2"), Some("v9")}

MatchesFilter(v, filter) == IsNone(filter) \/ v.video_id = TheVal(filter)

(* PineconeVectorStore.query: the top_k stored vectors that pass the filter,
   most similar first, each parsed into a match dict. *)
ParseMatch(i) ==
    LET v == StoredVectors[i]
        md == [video_id |-> v.video_id, chunk_id |-> v.chunk_id, text |-> v.text]
    IN  [id |-> v.id, score |-> RInt(sim[i]), text |-> md.text,
         video_id |-> md.video_id, chunk_id |-> md.chunk_id, metadata |-> md]

StoreQuery(top_k, filter) ==
    LET order == SortedDescIdx([i \in 1..NumVectors |-> RInt(sim[i])])
        hits == SelectSeq(order, LAMBDA i : MatchesFilter(StoredVectors[i], filter))
    IN  SeqMap(ParseMatch, Take(hits, top_k))

----------------------------------------------------------------------------
(* Queries *)

MaxQueryChars == 1000

Query(words, pad) == [words |-> words, pad |-> pad]

(* len(query) *)
StrLen(query) ==
    query.pad + (IF query.words = <<>> THEN 0 ELSE 2 * Len(query.words) - 1)

(* query.strip() *)
Strip(query) == [query EXCEPT !.pad = 0]

EmptyQuery == Query(<<>>, 0)

ValidQueries ==
    {Query(<<"a">>, MaxQueryChars - 1), Query(<<"A", "d">>, 0), Query(<<"A", "c", "d">>, 0),
     Query(<<"b">>, 0)}
InvalidQueries == {EmptyQuery, Query(<<>>, 2), Query(<<"a">>, MaxQueryChars)}
Queries == ValidQueries \cup InvalidQueries

(* _validate_query without the strip() test *)
ValidateQueryRaises_NoStrip(query) ==
    \/ StrLen(query) = 0
    \/ StrLen(query) > MaxQueryChars

(* BaseRetriever._validate_query: TRUE when it raises ValueError *)
ValidateQueryRaises(query) ==
    \/ StrLen(query) = 0
    \/ StrLen(Strip(query)) = 0
    \/ StrLen(query) > MaxQueryChars

(* BaseRetriever._get_top_k *)
GetTopK(top_k, self_top_k) == IF ~IsNone(top_k) THEN TheVal(top_k) ELSE self_top_k

(* BaseRetriever._format_results *)
FormatOne(result) ==
    [text |-> Get(result, "text", <<>>),
     score |-> Get(result, "score", Zero),
     video_id |-> Get(result, "video_id", "unknown"),
     chunk_id |-> Get(result, "chunk_id", 0),
     metadata |-> Get(result, "metadata", <<>>)]

FormatResults(results) == SeqMap(FormatOne, results)

----------------------------------------------------------------------------
(* rank_bm25.BM25Okapi (external library), as HybridRetriever uses it.  The
   index keeps the tokenized corpus.  idf(w) has the sign of
   ln((N - n + 0.5) / (n + 0.5)), that is of N - 2n, for a word in n of the N
   documents; a negative idf is replaced by epsilon * average idf with
   epsilon = 1/4, as the library does.  The term-frequency factor is the
   number of occurrences (length normalisation is not modelled). *)

Tokenize(text) == SeqMap(Lower, text)

RECURSIVE SumSet(_, _)
SumSet(S, f) ==
    IF S = {} THEN 0
    ELSE LET x == CHOOSE y \in S : TRUE IN f[x] + SumSet(S \ {x}, f)

BM25Okapi(tokenized_corpus) == [corpus |-> tokenized_corpus]

Terms(tc) == UNION {Range(tc[i]) : i \in 1..Len(tc)}
DocFreq(tc, w) == Cardinality({i \in 1..Len(tc) : w \in Range(tc[i])})
RawIdf(tc, w) == Len(tc) - 2 * DocFreq(tc, w)
AverageIdf(tc) ==
    Rat(SumSet(Terms(tc), [w \in Terms(tc) |-> RawIdf(tc, w)]), Cardinality(Terms(tc)))

Idf(tc, w) ==
    IF w \notin Terms(tc) THEN Zero
    ELSE IF RawIdf(tc, w) < 0 THEN RMul(Rat(1, 4), AverageIdf(tc))
    ELSE RInt(RawIdf(tc, w))

Count(doc, w) == Cardinality({j \in 1..Len(doc) : doc[j] = w})

RECURSIVE DocScore(_, _, _)
DocScore(tc, doc, tq) ==
    IF tq = <<>> THEN Zero
    ELSE RAdd(RMul(Idf(tc, tq[1]), RInt(Count(doc, tq[1]))), DocScore(tc, doc, Tail(tq)))

GetScores(bm25, tokenized_query) ==
    [i \in 1..Len(bm25.corpus) |-> DocScore(bm25.corpus, bm25.corpus[i], tokenized_query)]

----------------------------------------------------------------------------
(* HybridRetriever *)

(* the weight check looking at dense_weight only *)
WeightsInvalid_DenseOnly(dense_weight, sparse_weight) ==
    ~(0 <= dense_weight /\ dense_weight <= 100)

(* __init__: TRUE when the weight check raises ValueError; weights are given
   in hundredths *)
WeightsInvalid(dense_weight, sparse_weight) ==
    ~(0 <= dense_weight /\ dense_weight <= 100 /\ 0 <= sparse_weight /\ sparse_weight <= 100)

(* __init__: TRUE when the "Weights don't sum to 1.0" warning is logged *)
WeightsWarn(dense_weight, sparse_weight) ==
    Abs((dense_weight + sparse_weight) - 100) > 1

NewHybridRetriever(top_k, dense_kind, dense_weight, sparse_weight) ==
    [top_k |-> top_k, dense_retriever |-> dense_kind,
     dense_weight |-> Rat(dense_weight, 100), sparse_weight |-> Rat(sparse_weight, 100),
     bm25 |-> None, corpus |-> <<>>, corpus_metadata |-> <<>>]

(* _initialize_bm25 *)
InitializeBm25(self, documents) ==
    IF documents = <<>> THEN self
    ELSE LET corpus == [i \in 1..Len(documents) |-> Get(documents[i], "text", <<>>)]
         IN  [self EXCEPT !.corpus = corpus,
                          !.corpus_metadata = documents,
                          !.bm25 = Some(BM25Okapi(SeqMap(Tokenize, corpus)))]

(* _sparse_search taking the positive scores first and then the first top_k,
   in corpus order *)
SparseSearch_CorpusOrder(self, query, top_k) ==
    IF IsNone(self.bm25) \/ self.corpus = <<>> THEN <<>>
    ELSE LET scores == GetScores(TheVal(self.bm25), Tokenize(query.words))
             kept == Take(SelectSeq([i \in 1..Len(scores) |-> i],
                                    LAMBDA idx : RLess(Zero, scores[idx])), top_k)
         IN  [p \in 1..Len(kept) |->
                Put(Put(self.corpus_metadata[kept[p]], "score", scores[kept[p]]),
                    "search_type", "sparse")]

(* _sparse_search *)
SparseSearch(self, query, top_k) ==
    IF IsNone(self.bm25) \/ self.corpus = <<>> THEN <<>>
    ELSE LET scores == GetScores(TheVal(self.bm25), Tokenize(query.words))
             top_indices == Take(SortedDescIdx(scores), top_k)
             kept == SelectSeq(top_indices, LAMBDA idx : RLess(Zero, scores[idx]))
         IN  [p \in 1..Len(kept) |->
                Put(Put(self.corpus_metadata[kept[p]], "score", scores[kept[p]]),
                    "search_type", "sparse")]

(* normalize_scores dividing by the maximum in place of the range *)
NormalizeScores_ByMax(results) ==
    IF results = <<>> THEN results
    ELSE LET scores == [i \in 1..Len(results) |-> results[i].score]
             min_score == RMin(scores)
             max_score == RMax(scores)
         IN  IF max_score = min_score THEN results
             ELSE [i \in 1..Len(results) |->
                     Put(results[i], "score_normalized",
                         RDiv(results[i].score, max_score))]

(* _merge_results.normalize_scores; it writes score_normalized into the
   dicts of the list it is given *)
NormalizeScores(results) ==
    IF results = <<>> THEN results
    ELSE LET scores == [i \in 1..Len(results) |-> results[i].score]
             min_score == RMin(scores)
             max_score == RMax(scores)
         IN  IF max_score = min_score THEN results
             ELSE [i \in 1..Len(results) |->
                     Put(results[i], "score_normalized",
                         RDiv(RSub(results[i].score, min_score),
                              RSub(max_score, min_score)))]

(* the dict combined, in insertion order: a sequence of [key, val] *)
HasKey(combined, key) == \E i \in 1..Len(combined) : combined[i].key = key
KeyPos(combined, key) == CHOOSE i \in 1..Len(combined) : combined[i].key = key

SetItem(combined, key, val) ==
    IF HasKey(combined, key)
    THEN [combined EXCEPT ![KeyPos(combined, key)].val = val]
    ELSE Append(combined, [key |-> key, val |-> val])

DocId(result) == Get(result, "id", "")

DenseEntry(self, result) ==
    Put(Put(Put(result,
        "hybrid_score", RMul(Get(result, "score_normalized", Zero), self.dense_weight)),
        "dense_score", Get(result, "score", Zero)),
        "sparse_score", Zero)

SparseOnlyEntry(self, result) ==
    Put(Put(Put(result,
        "hybrid_score", RMul(Get(result, "score_normalized", Zero), self.sparse_weight)),
        "dense_score", Zero),
        "sparse_score", Get(result, "score", Zero))

SparseMerged(self, entry, result) ==
    Put(Put(entry,
        "hybrid_score", RAdd(entry.hybrid_score,
                             RMul(Get(result, "score_normalized", Zero), self.sparse_weight))),
        "sparse_score", Get(result, "score", Zero))

RECURSIVE AddDense(_, _, _)
AddDense(self, combined, dense_results) ==
    IF dense_results = <<>> THEN combined
    ELSE AddDense(self,
                  SetItem(combined, DocId(dense_results[1]), DenseEntry(self, dense_results[1])),
                  Tail(dense_results))

RECURSIVE AddSparse(_, _, _)
AddSparse(self, combined, sparse_results) ==
    IF sparse_results = <<>> THEN combined
    ELSE LET result == sparse_results[1]
             doc_id == DocId(result)
             entry == IF HasKey(combined, doc_id)
                      THEN SparseMerged(self, combined[KeyPos(combined, doc_id)].val, result)
                      ELSE SparseOnlyEntry(self, result)
         IN  AddSparse(self, SetItem(combined, doc_id, entry), Tail(sparse_results))

(* the sort with equal scores in the reverse of their insertion order *)
SortByHybridScore_TiesReversed(values) ==
    LET n == Len(values)
        rev == [i \in 1..n |-> values[n + 1 - i]]
        order == SortedDescIdx([i \in 1..n |-> rev[i].hybrid_score])
    IN  [p \in 1..n |-> rev[order[p]]]

(* merged.sort(key=lambda x: x["hybrid_score"], reverse=True) *)
SortByHybridScore(values) ==
    LET order == SortedDescIdx([i \in 1..Len(values) |-> values[i].hybrid_score])
    IN  [p \in 1..Len(values) |-> values[order[p]]]

(* _merge_results *)
MergeResults(self, dense_results, sparse_results) ==
    LET dense == NormalizeScores(dense_results)
        sparse == NormalizeScores(sparse_results)
        combined == AddSparse(self, AddDense(self, <<>>, dense), sparse)
    IN  SortByHybridScore([i \in 1..Len(combined) |-> combined[i].val])

(* step 5 without the slice *)
Truncate_All(merged_results, k) == merged_results

(* retrieve, step 5: merged_results[:k] *)
Truncate(merged_results, k) == Take(merged_results, k)

(* retrieve, after step 5: copy hybrid_score into score, format *)
FinalResults(merged_results, k) ==
    LET final == Truncate(merged_results, k)
    IN  FormatResults([i \in 1..Len(final) |->
            Put(final[i], "score",
                Get(final[i], "hybrid_score", Get(final[i], "score", Zero)))])

----------------------------------------------------------------------------
(* SimpleRetriever.retrieve after validation: embed the query, query the
   store, format.  outcome names the external call that raises, if any.
   The result is [err, results, ext]: the error raised ("" for none), the
   list returned and the external services called. *)

DenseOutcomes == {"ok", "embedding_fails", "query_fails"}

(* retrieve with an except clause that logs and returns the empty list *)
SimpleRetrieve_Swallow(query, top_k, self_top_k, filter, outcome) ==
    IF ValidateQueryRaises(query)
    THEN [err |-> "ValueError", results |-> <<>>, ext |-> {}]
    ELSE IF outcome # "ok"
    THEN [err |-> "", results |-> <<>>, ext |-> {"embedding"}]
    ELSE [err |-> "", results |-> FormatResults(StoreQuery(GetTopK(top_k, self_top_k), filter)),
          ext |-> {"embedding", "vector_store"}]

SimpleRetrieve(query, top_k, self_top_k, filter, outcome) ==
    IF ValidateQueryRaises(query)
    THEN [err |-> "ValueError", results |-> <<>>, ext |-> {}]
    ELSE LET k == GetTopK(top_k, self_top_k) IN
         IF outcome = "embedding_fails"
         THEN [err |-> "SearchError", results |-> <<>>, ext |-> {"embedding"}]
         ELSE IF outcome = "query_fails"
         THEN [err |-> "SearchError", results |-> <<>>, ext |-> {"embedding", "vector_store"}]
         ELSE [err |-> "", results |-> FormatResults(StoreQuery(k, filter)),
               ext |-> {"embedding", "vector_store"}]

(* A dense retriever passed to HybridRetriever(dense_retriever=...) that
   hands the store's matches on as they are, ids included. *)
IdKeepingRetrieve(query, top_k, filter, outcome) ==
    IF outcome # "ok"
    THEN [err |-> "SearchError", results |-> <<>>, ext |-> {"embedding"}]
    ELSE [err |-> "", results |-> StoreQuery(top_k, filter),
          ext |-> {"embedding", "vector_store"}]

DenseKinds == {"SimpleRetriever", "IdKeeping"}

(* QueryRewritingRetriever.rewrite_query: llm is None when the completion
   call raises, else Some(text the model returned) *)
(* rewrite_query with an except clause that returns the empty string *)
RewriteQuery_Empty(query, llm) == IF IsNone(llm) THEN EmptyQuery ELSE Strip(TheVal(llm))

RewriteQuery(query, llm) == IF IsNone(llm) THEN query ELSE Strip(TheVal(llm))

LlmOutcomes == {None, Some(Query(<<"A", "d">>, 1)), Some(Query(<<>>, 1))}

(* QueryRewritingRetriever.retrieve; the base retriever is a SimpleRetriever
   built with the same top_k.  base holds the arguments of the call on the
   base retriever, None when retrieve raised before it. *)
RewritingRetrieve(query, top_k, self_top_k, filter, skip_rewrite, llm, outcome) ==
    IF ValidateQueryRaises(query)
    THEN [err |-> "ValueError", results |-> <<>>, ext |-> {}, base |-> None]
    ELSE LET k == GetTopK(top_k, self_top_k)
             rewritten_query == IF ~skip_rewrite THEN RewriteQuery(query, llm) ELSE query
             llm_ext == IF ~skip_rewrite THEN {"llm"} ELSE {}
             r == SimpleRetrieve(rewritten_query, Some(k), self_top_k, filter, outcome)
         IN  [err |-> r.err,
              results |-> [i \in 1..Len(r.results) |->
                  Put(Put(r.results[i], "original_query", query),
                      "rewritten_query", rewritten_query)],
              ext |-> r.ext \cup llm_ext,
              base |-> Some([query |-> rewritten_query, top_k |-> Some(k),
                             filter |-> filter])]

DenseRetrieve(self, query, top_k, filter, outcome) ==
    IF self.dense_retriever = "SimpleRetriever"
    THEN SimpleRetrieve(query, Some(top_k), 2 * self.top_k, filter, outcome)
    ELSE IdKeepingRetrieve(query, top_k, filter, outcome)

----------------------------------------------------------------------------
(* CitationHandler.  Here a text is the sequence of its characters. *)

IsSpace(ch) == ch \in {" ", "\t", "\n"}

Digits == <<"0", "1", "2", "3", "4", "5", "6", "7", "8", "9">>
IsDigit(ch) == ch \in Range(Digits)
DigitVal(ch) == (CHOOSE n \in 1..10 : Digits[n] = ch) - 1

(* int(match) *)
RECURSIVE ParseInt(_)
ParseInt(ds) ==
    IF ds = <<>> THEN 0
    ELSE 10 * ParseInt(SubSeq(ds, 1, Len(ds) - 1)) + DigitVal(ds[Len(ds)])

(* where the longest run of whitespace, of digits, of non-whitespace that
   starts at position i stops: the first position after the run *)
SpaceEnd(text, i) ==
    CHOOSE j \in i..(Len(text) + 1) :
        /\ j = Len(text) + 1 \/ ~IsSpace(text[j])
        /\ \A m \in i..(j - 1) : IsSpace(text[m])

DigitEnd(text, i) ==
    CHOOSE j \in i..(Len(text) + 1) :
        /\ j = Len(text) + 1 \/ ~IsDigit(text[j])
        /\ \A m \in i..(j - 1) : IsDigit(text[m])

WordEnd(text, i) ==
    CHOOSE j \in i..(Len(text) + 1) :
        /\ j = Len(text) + 1 \/ IsSpace(text[j])
        /\ \A m \in i..(j - 1) : ~IsSpace(text[m])

MarkerOpen == <<"[", "C", "h", "u", "n", "k">>

(* the pattern with a single space in place of \s+ *)
MatchMarker_OneSpace(text, i) ==
    LET s == i + Len(MarkerOpen)
        opened == s - 1 <= Len(text) /\ SubSeq(text, i, s - 1) = MarkerOpen
        d == s + 1
        e == DigitEnd(text, d)
    IN  IF opened /\ s <= Len(text) /\ text[s] = " "
           /\ e > d /\ e <= Len(text) /\ text[e] = "]"
        THEN [matched |-> TRUE, stop |-> e + 1, group |-> SubSeq(text, d, e - 1)]
        ELSE [matched |-> FALSE, stop |-> i, group |-> <<>>]

(* the pattern \[Chunk\s+(\d+)\] tried at position i: whether it matches,
   the position after the match and the group (\d+) *)
MatchMarker(text, i) ==
    LET s == i + Len(MarkerOpen)
        opened == s - 1 <= Len(text) /\ SubSeq(text, i, s - 1) = MarkerOpen
        d == SpaceEnd(text, s)
        e == DigitEnd(text, d)
    IN  IF opened /\ d > s /\ e > d /\ e <= Len(text) /\ text[e] = "]"
        THEN [matched |-> TRUE, stop |-> e + 1, group |-> SubSeq(text, d, e - 1)]
        ELSE [matched |-> FALSE, stop |-> i, group |-> <<>>]

(* re.findall(pattern, text) from position i on: the groups of the
   non-overlapping matches, leftmost first *)
RECURSIVE FindAll(_, _)
FindAll(text, i) ==
    IF i > Len(text) THEN <<>>
    ELSE LET m == MatchMarker(text, i)
         IN  IF m.matched THEN <<m.group>> \o FindAll(text, m.stop)
             ELSE FindAll(text, i + 1)

(* extract_citations, keeping each cited id once *)
ExtractCitations_Distinct(text) ==
    LET matches == FindAll(text, 1)
        ids == [k \in 1..Len(matches) |-> ParseInt(matches[k])]
        firsts == SelectSeq([k \in 1..Len(ids) |-> k],
                            LAMBDA k : \A j \in 1..(k - 1) : ids[j] # ids[k])
    IN  [k \in 1..Len(firsts) |-> ids[firsts[k]]]

(* extract_citations *)
ExtractCitations(text) ==
    LET matches == FindAll(text, 1)
    IN  [k \in 1..Len(matches) |-> ParseInt(matches[k])]

(* the pattern \s*\[Chunk\s+\d+\]\s* tried at position i *)
MatchSpacedMarker(text, i) ==
    LET m == MatchMarker(text, SpaceEnd(text, i))
    IN  IF m.matched THEN [matched |-> TRUE, stop |-> SpaceEnd(text, m.stop)]
        ELSE [matched |-> FALSE, stop |-> i]

(* re.sub(pattern, ' ', text) from position i on *)
RECURSIVE SubMarkers(_, _)
SubMarkers(text, i) ==
    IF i > Len(text) THEN <<>>
    ELSE LET m == MatchSpacedMarker(text, i)
         IN  IF m.matched THEN <<" ">> \o SubMarkers(text, m.stop)
             ELSE <<text[i]>> \o SubMarkers(text, i + 1)

(* text.split() from position i on: the words between runs of whitespace *)
RECURSIVE Split(_, _)
Split(text, i) ==
    LET b == SpaceEnd(text, i)
    IN  IF b > Len(text) THEN <<>>
        ELSE <<SubSeq(text, b, WordEnd(text, b) - 1)>> \o Split(text, WordEnd(text, b))

(* sep.join(words) *)
RECURSIVE Join(_, _)
Join(sep, words) ==
    IF words = <<>> THEN <<>>
    ELSE IF Len(words) = 1 THEN words[1]
    ELSE words[1] \o sep \o Join(sep, Tail(words))

(* remove_citations *)
RemoveCitations(text) == Join(<<" ">>, Split(SubMarkers(text, 1), 1))

(* add_source_info: chunk_map = {chunk.get("chunk_id", i): chunk for i, chunk
   in enumerate(chunks)}; of two chunks with one key the later one stays *)
ChunkMapKey(chunks, i) == Get(chunks[i], "chunk_id", i - 1)
InChunkMap(chunks, chunk_id) ==
    \E i \in 1..Len(chunks) : ChunkMapKey(chunks, i) = chunk_id
ChunkMapGet(chunks, chunk_id) ==
    chunks[CHOOSE i \in 1..Len(chunks) :
        /\ ChunkMapKey(chunks, i) = chunk_id
        /\ \A j \in (i + 1)..Len(chunks) : ChunkMapKey(chunks, j) # chunk_id]

SourceOf(chunk_id, chunk) ==
    [chunk_id |-> chunk_id,
     text |-> Get(chunk, "text", <<>>),
     video_id |-> Get(chunk, "video_id", "unknown"),
     score |-> Get(chunk, "score", Zero)]

(* add_source_info that drops the unresolved ids from citations too *)
AddSourceInfo_DropUnresolved(answer, chunks) ==
    LET cited_ids == ExtractCitations(answer)
        resolved == SelectSeq(cited_ids, LAMBDA c : InChunkMap(chunks, c))
        sources == [k \in 1..Len(resolved) |->
                       SourceOf(resolved[k], ChunkMapGet(chunks, resolved[k]))]
    IN  [answer |-> answer, citations |-> resolved, sources |-> sources,
         num_citations |-> Len(resolved), num_valid_citations |-> Len(sources)]

(* add_source_info *)
AddSourceInfo(answer, chunks) ==
    LET cited_ids == ExtractCitations(answer)
        resolved == SelectSeq(cited_ids, LAMBDA c : InChunkMap(chunks, c))
        sources == [k \in 1..Len(resolved) |->
                       SourceOf(resolved[k], ChunkMapGet(chunks, resolved[k]))]
    IN  [answer |-> answer, citations |-> cited_ids, sources |-> sources,
         num_citations |-> Len(cited_ids), num_valid_citations |-> Len(sources)]

----------------------------------------------------------------------------
(* Texts given to the CitationHandler *)

MaxSegments == 3

Marker(spaces, digits) == MarkerOpen \o spaces \o digits \o <<"]">>

(* spec example of extract_citations: 'A [Chunk 0] B [Chunk 2] C [Chunk 0]' *)
TextABC ==
    <<"A", " ", "[", "C", "h", "u", "n", "k", " ", "0", "]", " ", "B", " ", "[", "C", "h", "u", "n", "k", " ", "2", "]", " ", "C", " ", "[", "C", "h", "u", "n", "k", " ", "0", "]">>

(* spec example of remove_citations: 'Fact one [Chunk 0]. Fact two [Chunk 1].' *)
TextFacts ==
    <<"F", "a", "c", "t", " ", "o", "n", "e", " ", "[", "C", "h", "u", "n", "k", " ", "0", "]", ".", " ", "F", "a", "c", "t", " ", "t", "w", "o", " ", "[", "C", "h", "u", "n", "k", " ", "1", "]", ".">>

(* docstring example of remove_citations: 'RAG is useful [Chunk 0].' *)
TextRag ==
    <<"R", "A", "G", " ", "i", "s", " ", "u", "s", "e", "f", "u", "l", " ", "[", "C", "h", "u", "n", "k", " ", "0", "]", ".">>

(* three citations, one of a chunk that is not there: 'X [Chunk 0] [Chunk 2] [Chunk 5]' *)
TextThree ==
    <<"X", " ", "[", "C", "h", "u", "n", "k", " ", "0", "]", " ", "[", "C", "h", "u", "n", "k", " ", "2", "]", " ", "[", "C", "h", "u", "n", "k", " ", "5", "]">>

(* a tab for the space: '[Chunk\t3]' *)
TextTab ==
    <<"[", "C", "h", "u", "n", "k", "\t", "3", "]">>

(* no citation: 'This has no citations.' *)
TextNone ==
    <<"T", "h", "i", "s", " ", "h", "a", "s", " ", "n", "o", " ", "c", "i", "t", "a", "t", "i", "o", "n", "s", ".">>

ExampleTexts == {TextABC, TextFacts, TextRag, TextThree, TextTab, TextNone}

(* the pieces texts are put together from: markers, near misses ("[Chunk  3]",
   "[Chunk3]", "[chunk 3]"), the two halves of a marker, and plain text *)
Segments ==
    {Marker(<<" ">>, <<"0">>), Marker(<<" ">>, <<"2">>), Marker(<<" ">>, <<"1", "0">>),
     Marker(<<" ", " ">>, <<"3">>), Marker(<<>>, <<"3">>),
     <<"[", "c", "h", "u", "n", "k", " ", "3", "]">>,
     MarkerOpen, <<"1", "]">>, <<"A">>, <<" ">>, <<".">>}

RECURSIVE Flatten(_)
Flatten(segs) == IF segs = <<>> THEN <<>> ELSE segs[1] \o Flatten(Tail(segs))

Texts ==
    ExampleTexts \cup
    {Flatten(segs) : segs \in UNION {[1..n -> Segments] : n \in 0..MaxSegments}}

(* chunk lists given to add_source_info: none, chunks 0 and 2 of one video,
   chunk 0 of two videos, chunks without a chunk_id *)
SomeChunk(video_id, chunk_id, score) ==
    [text |-> <<"b">>, score |-> Rat(score, 10), video_id |-> video_id,
     chunk_id |-> chunk_id, metadata |-> <<>>]

ChunkLists ==
    {<<>>,
     <<SomeChunk("v1", 0, 9), SomeChunk("v1", 2, 7)>>,
     <<SomeChunk("v1", 0, 9), SomeChunk("v2", 0, 8)>>,
     <<[text |-> <<"b">>], [text |-> <<"c">>, video_id |-> "v1"]>>}

(* the CitationHandler call: the method called ("none" before the call), the
   text and chunk list given, and what came back: the list of
   extract_citations, the dict of add_source_info, the text of
   remove_citations, and the exception raised ("" for none) *)
NoCite ==
    [op |-> "none", text |-> <<>>, chunks |-> <<>>,
     ids |-> <<>>, info |-> None, clean |-> <<>>, err |-> ""]

----------------------------------------------------------------------------
(* build_qa_prompt, format_context_for_prompt *)

(* str(n) for n >= 0 *)
RECURSIVE FormatInt(_)
FormatInt(n) ==
    IF n < 10 THEN <<Digits[n + 1]>>
    ELSE FormatInt(n \div 10) \o <<Digits[(n % 10) + 1]>>

(* format_context_for_prompt: the context parts, joined by blank lines in the
   code; a part is the chunk's text under its "[Chunk N]" line, or the text
   alone.  label is that line (empty when there is none). *)
FormatContextForPrompt(chunks, include_chunk_ids) ==
    [i \in 1..Len(chunks) |->
        [label |-> IF include_chunk_ids
                   THEN Marker(<<" ">>, FormatInt(Get(chunks[i], "chunk_id", 0)))
                   ELSE <<>>,
         text |-> Get(chunks[i], "text", <<>>)]]

(* build_qa_prompt: the template chosen and what fills it *)
BuildQaPrompt(question, chunks, include_citations) ==
    [template |-> IF include_citations THEN "QA_PROMPT_WITH_CITATIONS"
                  ELSE "QA_SYSTEM_PROMPT",
     context |-> FormatContextForPrompt(chunks, include_citations),
     question |-> question]

----------------------------------------------------------------------------
(* Exceptions (utils/exceptions.py): each class with its base classes *)

Bases(cls) ==
    CASE cls = "SearchError" -> {"SearchError", "RetrievalError", "RAGException", "Exception"}
      [] cls = "LLMError" -> {"LLMError", "GenerationError", "RAGException", "Exception"}
      [] cls = "RAGException" -> {"RAGException", "Exception"}
      [] OTHER -> {cls, "Exception"}

IsInstance(cls, base) == base \in Bases(cls)

(* "I couldn't find any relevant information to answer this question." *)
CannedAnswer ==
    <<"I", " ", "c", "o", "u", "l", "d", "n", "'", "t", " ", "f", "i", "n",
      "d", " ", "a", "n", "y", " ", "r", "e", "l", "e", "v", "a", "n", "t",
      " ", "i", "n", "f", "o", "r", "m", "a", "t", "i", "o", "n", " ", "t",
      "o", " ", "a", "n", "s", "w", "e", "r", " ", "t", "h", "i", "s", " ",
      "q", "u", "e", "s", "t", "i", "o", "n", ".">>

(* "Error: " *)
ErrorPrefix == <<"E", "r", "r", "o", "r", ":", " ">>

----------------------------------------------------------------------------
(* LLMClient.  gen is what the completion call does: err names the exception
   it raises ("" for none), text is the content it returns. *)

(* str.strip() of a text *)
StripText(text) ==
    LET first == SpaceEnd(text, 1)
        last == CHOOSE j \in 0..Len(text) :
                    /\ j = 0 \/ ~IsSpace(text[j])
                    /\ \A m \in (j + 1)..Len(text) : IsSpace(text[m])
    IN  IF first > Len(text) THEN <<>> ELSE SubSeq(text, first, last)

(* generate: the answer, or LLMError *)
Generate(prompt, gen) ==
    IF gen.err # "" THEN [err |-> "LLMError", answer |-> <<>>]
    ELSE [err |-> "", answer |-> StripText(gen.text)]

(* generate_streaming: the pieces yielded, then LLMError when the stream
   breaks; stream.pieces are the pieces the service sends before stream.err *)
GenerateStreaming(prompt, stream) ==
    [err |-> IF stream.err # "" THEN "LLMError" ELSE "", pieces |-> stream.pieces]

----------------------------------------------------------------------------
(* QAChain *)

RetrieverTypes == {"simple", "rewriting", "hybrid"}

(* HybridRetriever.retrieve as one call on the retriever self: the error
   raised, the list returned, the services called, the retriever after it.
   HybridMerged is steps 4 and 5 and the formatting, HybridIndexed steps 2
   and 3, given the dense results and the retriever with its index built. *)
HybridMerged(indexed, dense, sparse, k) ==
    [err |-> "",
     results |-> FinalResults(MergeResults(indexed, dense.results, sparse), k),
     ext |-> dense.ext,
     self |-> IF dense.results = <<>> THEN indexed
              ELSE [indexed EXCEPT !.corpus_metadata = NormalizeScores(dense.results)]]

HybridIndexed(indexed, query, dense, k) ==
    HybridMerged(indexed, dense, SparseSearch(indexed, query, k * 2), k)

HybridDense(self, query, dense, k) ==
    IF dense.err # ""
    THEN [err |-> "SearchError", results |-> <<>>, ext |-> dense.ext, self |-> self]
    ELSE HybridIndexed(InitializeBm25(self, dense.results), query, dense, k)

HybridK(self, query, filter, outcome, k) ==
    HybridDense(self, query, DenseRetrieve(self, query, k * 2, filter, outcome), k)

HybridRetrieve(self, query, top_k, filter, outcome) ==
    IF ValidateQueryRaises(query)
    THEN [err |-> "ValueError", results |-> <<>>, ext |-> {}, self |-> self]
    ELSE HybridK(self, query, filter, outcome, GetTopK(top_k, self.top_k))

(* QAChain.__init__ for a valid retriever_type; retriever is the state the
   retriever keeps between calls *)
NewQAChain(retriever_type, top_k, include_citations) ==
    [retriever_type |-> retriever_type, top_k |-> top_k,
     include_citations |-> include_citations,
     retriever |-> IF retriever_type = "hybrid"
                   THEN Some(NewHybridRetriever(top_k, "SimpleRetriever", 70, 30))
                   ELSE None]

(* self.retriever.retrieve(question, top_k=k, filter=filter) *)
OfHybrid(r) == [err |-> r.err, results |-> r.results, retriever |-> Some(r.self)]
OfStateless(r) == [err |-> r.err, results |-> r.results, retriever |-> None]

ChainRetrieve(self, question, k, filter, rewrite, outcome) ==
    IF self.retriever_type = "hybrid"
    THEN OfHybrid(HybridRetrieve(TheVal(self.retriever), question, Some(k), filter, outcome))
    ELSE IF self.retriever_type = "rewriting"
    THEN OfStateless(RewritingRetrieve(question, Some(k), self.top_k, filter,
                                       FALSE, rewrite, outcome))
    ELSE OfStateless(SimpleRetrieve(question, Some(k), self.top_k, filter, outcome))

(* k = top_k or self.top_k *)
TopKOr(top_k, self_top_k) ==
    IF IsNone(top_k) \/ TheVal(top_k) = 0 THEN self_top_k ELSE TheVal(top_k)

(* if video_id: filter = {"video_id": video_id} *)
VideoFilter(video_id) ==
    IF IsNone(video_id) \/ TheVal(video_id) = "" THEN None ELSE video_id

(* what a call of the chain leaves: the exception that reaches the caller
   (raised) and the one it was made from (cause), the dict returned, the
   strings yielded, the chunks retrieved, the prompt built, the number of
   completion calls, whether citation processing ran, the chain's retriever
   after the call *)
ChainOutcome(self) ==
    [raised |-> "", cause |-> "", result |-> None, yields |-> <<>>, chunks |-> <<>>,
     prompt |-> None, llm_calls |-> 0, cited |-> FALSE, retriever |-> self.retriever]

(* QAChain.answer, step 4 and the dict returned, given the chunks retrieved
   and the answer generated *)
AnswerResult(self, question, chunks, answer, citation_info) ==
    IF self.include_citations
    THEN [question |-> question, answer |-> citation_info.answer,
          citations |-> citation_info.citations,
          sources |-> citation_info.sources,
          num_sources |-> citation_info.num_valid_citations,
          retrieved_chunks |-> Len(chunks),
          retriever_type |-> self.retriever_type,
          duration_seconds |-> "duration", timestamp |-> "end_time"]
    ELSE [question |-> question, answer |-> answer,
          retrieved_chunks |-> Len(chunks),
          retriever_type |-> self.retriever_type,
          duration_seconds |-> "duration", timestamp |-> "end_time"]

(* QAChain.answer, steps 3 and 4, given the prompt and what generate does *)
AnswerGenerated(self, question, base, prompt, g) ==
    IF g.err # ""
    THEN [base EXCEPT !.raised = g.err, !.cause = g.err,
                      !.prompt = Some(prompt), !.llm_calls = 1]
    ELSE [base EXCEPT !.prompt = Some(prompt), !.llm_calls = 1,
                      !.cited = self.include_citations,
                      !.result = Some(AnswerResult(self, question, base.chunks, g.answer,
                                          AddSourceInfo(g.answer, base.chunks)))]

(* QAChain.answer, from the return of retrieve on *)
AnswerRetrieved(self, question, r, gen, base) ==
    IF r.err # ""
    THEN [base EXCEPT !.raised = r.err, !.cause = r.err]
    ELSE IF r.results = <<>>
    THEN [base EXCEPT !.result = Some(
             [question |-> question, answer |-> CannedAnswer, sources |-> <<>>,
              num_sources |-> 0, retriever_type |-> self.retriever_type])]
    ELSE AnswerGenerated(self, question, base,
             BuildQaPrompt(question, r.results, self.include_citations),
             Generate(BuildQaPrompt(question, r.results, self.include_citations), gen))

RetrievedBase(self, r) ==
    [ChainOutcome(self) EXCEPT !.retriever = r.retriever,
                               !.chunks = IF r.err = "" THEN r.results ELSE <<>>]

(* QAChain.answer, the body of the try block *)
QAAnswerTry(self, question, r, gen) ==
    AnswerRetrieved(self, question, r, gen, RetrievedBase(self, r))

Reraised(o) == IF o.raised # "" THEN [o EXCEPT !.raised = "RAGException"] ELSE o

(* QAChain.answer: every exception is caught and RAGException raised *)
QAAnswer(self, question, video_id, top_k, rewrite, outcome, gen) ==
    Reraised(QAAnswerTry(self, question,
        ChainRetrieve(self, question, TopKOr(top_k, self.top_k), VideoFilter(video_id),
                      rewrite, outcome),
        gen))

(* QAChain.answer_streaming from the return of retrieve on: every exception
   is caught and yielded as "Error: ..." (the exception's message stands as
   one symbol, its class name) *)
StreamRetrieved(self, question, r, g, base) ==
    IF r.err # ""
    THEN [base EXCEPT !.cause = r.err, !.yields = <<ErrorPrefix \o <<r.err>>>>]
    ELSE IF r.results = <<>>
    THEN [base EXCEPT !.yields = <<CannedAnswer>>]
    ELSE [base EXCEPT !.prompt = Some(BuildQaPrompt(question, r.results,
                                                    self.include_citations)),
                      !.llm_calls = 1, !.cause = g.err,
                      !.yields = IF g.err # ""
                                 THEN Append(g.pieces, ErrorPrefix \o <<g.err>>)
                                 ELSE g.pieces]

StreamTry(self, question, r, stream) ==
    StreamRetrieved(self, question, r,
        GenerateStreaming(BuildQaPrompt(question, r.results, self.include_citations), stream),
        RetrievedBase(self, r))

(* QAChain.answer_streaming, the generator run to its end *)
QAAnswerStreaming(self, question, video_id, top_k, rewrite, outcome, stream) ==
    StreamTry(self, question,
        ChainRetrieve(self, question, TopKOr(top_k, self.top_k), VideoFilter(video_id),
                      rewrite, outcome),
        stream)

----------------------------------------------------------------------------
(* Requests of the QAChain and of the /query routes *)

(* QueryRequest: field limits, and top_k when the request leaves it out *)
MinQuestionChars == 3
MaxQuestionChars == 500
MaxRequestTopK == 10
DefaultTopK == 4

(* the last request: the operation ("none" before the first), its
   arguments, the chain it ran on, what the services did (dense_outcome,
   gen_err), whether a stored vector passes the video filter, what the
   chain call left (see ChainOutcome), and for a route the HTTP status, the
   except clause that made it and the events sent *)
NoRequest ==
    [op |-> "none", question |-> EmptyQuery, video_id |-> None, top_k |-> None,
     retriever_type |-> "", include_citations |-> FALSE,
     dense_outcome |-> "", gen_err |-> "", filter_matches |-> FALSE,
     raised |-> "", cause |-> "", result |-> None, yields |-> <<>>, chunks |-> <<>>,
     prompt |-> None, llm_calls |-> 0, cited |-> FALSE,
     status |-> 0, handler |-> "", events |-> <<>>]

NoQA == [chain |-> None, req |-> NoRequest]

----------------------------------------------------------------------------
(* Indexing: IndexingChain and PineconeVectorStore.  Lengths are counted in
   blocks of 500 characters. *)

(* settings.CHUNK_SIZE (1000 characters), the text limit of the vector
   metadata (1000 characters), the default batch_size of upsert_chunks *)
ChunkSizeDefault == 2
MetadataTextLimit == 2
DefaultBatchSize == 100

(* the videos with a well-formed id, and the transcript the loader fetches
   for each *)
IndexedVideoIds == {"v1", "v2"}
TranscriptText(video_id) == IF video_id = "v1" THEN <<"p", "q", "r">> ELSE <<"s", "t">>

(* validate_youtube_video_id: TRUE when it raises InvalidVideoIDError; ""
   stands for an id that is not of the 11-character form *)
VideoIdInvalid(video_id) == video_id \notin IndexedVideoIds

(* RecursiveCharacterTextSplitter.split_text (external library): consecutive
   pieces of at most chunk_size; the overlap is not modelled *)
RECURSIVE SplitterSplitText(_, _)
SplitterSplitText(text, chunk_size) ==
    IF text = <<>> THEN <<>>
    ELSE <<Take(text, chunk_size)>>
            \o SplitterSplitText(SubSeq(text, chunk_size + 1, Len(text)), chunk_size)

(* TranscriptTextSplitter.split_transcript *)
SplitTranscript(video_id, text, chunk_size) ==
    [idx \in 1..Len(SplitterSplitText(text, chunk_size)) |->
        [text |-> SplitterSplitText(text, chunk_size)[idx], chunk_id |-> idx - 1,
         metadata |-> [video_id |-> video_id]]]

(* EmbeddingGenerator.embed_chunks: failed holds the positions whose
   embedding call raised; those chunks are skipped *)
EmbedChunks(chunks, failed) ==
    LET kept == SelectSeq([i \in 1..Len(chunks) |-> i], LAMBDA i : i \notin failed)
    IN  [p \in 1..Len(kept) |-> Put(chunks[kept[p]], "embedding", "values")]

(* upsert_chunks: the vector of a chunk; the id video_id + "_" + chunk_id is
   the pair *)
VectorOf(chunk) ==
    [id |-> <<chunk.metadata.video_id, chunk.chunk_id>>,
     values |-> chunk.embedding,
     metadata |-> [video_id |-> chunk.metadata.video_id, chunk_id |-> chunk.chunk_id,
                   text |-> Take(chunk.text, MetadataTextLimit)]]

(* Pinecone (external): upsert replaces the vectors with the ids given and
   adds the others; delete by filter removes the vectors of the video *)
PineconeUpsert(store, vectors) ==
    {v \in store : \A i \in 1..Len(vectors) : vectors[i].id # v.id} \cup Range(vectors)

PineconeDelete(store, video_id) == {v \in store : v.metadata.video_id # video_id}

(* the store after the batches before the failing one (all of them when
   fail_batch is 0) *)
UpsertBatches(store, vectors, num_batches, batch_size, done) ==
    [err |-> IF done < num_batches THEN "VectorStoreError" ELSE "",
     store |-> PineconeUpsert(store, Take(vectors, done * batch_size)),
     upserted_count |-> IF done < num_batches THEN 0
                        ELSE Len(Take(vectors, done * batch_size))]

(* PineconeVectorStore.upsert_chunks *)
UpsertChunks(store, chunks, batch_size, fail_batch) ==
    IF chunks = <<>> THEN [err |-> "", store |-> store, upserted_count |-> 0]
    ELSE UpsertBatches(store, [i \in 1..Len(chunks) |-> VectorOf(chunks[i])],
                       (Len(chunks) + batch_size - 1) \div batch_size, batch_size,
                       IF fail_batch = 0
                             \/ fail_batch > (Len(chunks) + batch_size - 1) \div batch_size
                       THEN (Len(chunks) + batch_size - 1) \div batch_size
                       ELSE fail_batch - 1)

(* IndexingChain.__init__: chunk_size or settings.CHUNK_SIZE *)
ChunkSizeOr(chunk_size) ==
    IF IsNone(chunk_size) \/ TheVal(chunk_size) = 0 THEN ChunkSizeDefault
    ELSE TheVal(chunk_size)

(* index_video, step 4 and the result *)
IndexStored(video_id, chunks, embedded_chunks, up) ==
    IF up.err # ""
    THEN [err |-> "IndexingError", store |-> up.store, chunks |-> chunks, result |-> None]
    ELSE [err |-> "", store |-> up.store, chunks |-> chunks,
          result |-> Some([video_id |-> video_id, status |-> "success",
                           num_chunks |-> Len(chunks),
                           num_embeddings |-> Len(embedded_chunks),
                           num_stored |-> up.upserted_count])]

(* index_video, steps 2 to 4 *)
IndexChunks(store, video_id, chunks, failed, fail_batch) ==
    IndexStored(video_id, chunks, EmbedChunks(chunks, failed),
                UpsertChunks(store, EmbedChunks(chunks, failed), DefaultBatchSize, fail_batch))

(* IndexingChain(chunk_size).index_video(video_id): load names whether the
   transcript loads; the error raised, the store after the call, the chunks
   the splitter produced and the result returned *)
IndexVideoRun(store, video_id, chunk_size, load, failed, fail_batch) ==
    IF VideoIdInvalid(video_id)
    THEN [err |-> "InvalidVideoIDError", store |-> store, chunks |-> <<>>, result |-> None]
    ELSE IF load # "ok"
    THEN [err |-> "IndexingError", store |-> store, chunks |-> <<>>, result |-> None]
    ELSE IndexChunks(store, video_id,
                     SplitTranscript(video_id, TranscriptText(video_id),
                                     ChunkSizeOr(chunk_size)),
                     failed, fail_batch)

(* IndexingChain.delete_video_index: the error raised and the store after *)
DeleteVideoIndexRun(store, video_id, outcome) ==
    IF VideoIdInvalid(video_id) THEN [err |-> "InvalidVideoIDError", store |-> store]
    ELSE IF outcome # "ok" THEN [err |-> "IndexingError", store |-> store]
    ELSE [err |-> "", store |-> PineconeDelete(store, video_id)]

NoIndex ==
    [store |-> {}, latest |-> [v \in IndexedVideoIds |-> None],
     last |-> [op |-> "none", video_id |-> "", err |-> "", result |-> None]]

----------------------------------------------------------------------------
(* State machine *)

TopKArgs == {None} \cup {Some(k) : k \in 1..MaxTopK}

(* constructor arguments (dense_weight, sparse_weight), in hundredths *)
WeightPairs == {<<70, 30>>, <<100, 0>>, <<0, 100>>, <<30, 30>>, <<70, 31>>,
                <<-10, 50>>, <<50, 110>>}

(* a call record: the retriever called, the arguments, the locals of
   retrieve, the error raised, the steps run, the external services called,
   how the dense stage ended, whether corpus_metadata is this call's
   dense_results list, when the call repeats the arguments of the call
   before it, what that call returned, for a QueryRewritingRetriever how
   the completion call ended ("" when it was not made) and the arguments
   handed to the base retriever, and, for a HybridRetriever, the arguments
   handed to the dense retriever and to _sparse_search and the list
   _merge_results returned *)
IdleCall ==
    [pc |-> "idle", retriever |-> "", query |-> EmptyQuery, top_k |-> None,
     filter |-> None, k |-> 0,
     dense |-> <<>>, sparse |-> <<>>, result |-> <<>>, err |-> "",
     steps |-> <<>>, ext |-> {}, dense_outcome |-> "", aliased |-> FALSE,
     again |-> None, llm_outcome |-> "", base |-> None,
     dense_req |-> None, sparse_req |-> None, merged |-> <<>>]

SameArgs(call, retriever, query, top_k, filter) ==
    /\ call.pc = "done"
    /\ call.retriever = retriever
    /\ call.query = query /\ call.top_k = top_k /\ call.filter = filter

NewCall(old, retriever, query, top_k, filter) ==
    [IdleCall EXCEPT !.retriever = retriever, !.query = query, !.top_k = top_k,
                     !.filter = filter,
                     !.again = IF SameArgs(old, retriever, query, top_k, filter)
                               THEN Some(old.result) ELSE None]

NoCtor == [status |-> "none", dense_weight |-> 0, sparse_weight |-> 0, warned |-> FALSE]

Init ==
    /\ sim \in SimTables
    /\ inst = None
    /\ ctor = NoCtor
    /\ calls = [c \in Callers |-> IdleCall]
    /\ cite = NoCite
    /\ qa = NoQA
    /\ ix = NoIndex

(* HybridRetriever.__init__ *)
Construct(top_k, dense_kind, dense_weight, sparse_weight) ==
    /\ ctor.status = "none"
    /\ IF WeightsInvalid(dense_weight, sparse_weight)
       THEN /\ ctor' = [status |-> "ValueError", dense_weight |-> dense_weight,
                        sparse_weight |-> sparse_weight, warned |-> FALSE]
            /\ inst' = inst
       ELSE /\ ctor' = [status |-> "ok", dense_weight |-> dense_weight,
                        sparse_weight |-> sparse_weight,
                        warned |-> WeightsWarn(dense_weight, sparse_weight)]
            /\ inst' = Some(NewHybridRetriever(top_k, dense_kind, dense_weight, sparse_weight))
    /\ UNCHANGED <<ix, cite, qa, sim, calls>>

Active(c) == calls[c].pc \in {"dense", "bm25", "sparse", "merge"}

(* retrieve: validation and _get_top_k *)
Begin(c, query, top_k, filter) ==
    /\ ~IsNone(inst)
    /\ ~Active(c)
    /\ calls' = [calls EXCEPT ![c] =
           IF ValidateQueryRaises(query)
           THEN [NewCall(@, "hybrid", query, top_k, filter) EXCEPT
                     !.pc = "error", !.err = "ValueError"]
           ELSE [NewCall(@, "hybrid", query, top_k, filter) EXCEPT
                     !.pc = "dense", !.k = GetTopK(top_k, TheVal(inst).top_k)]]
    /\ UNCHANGED <<ix, cite, qa, sim, inst, ctor>>

(* the keyword arguments of dense_retriever.retrieve *)
DenseRequest(query, top_k, filter) == [query |-> query, top_k |-> top_k, filter |-> filter]

(* retrieve, step 1: the dense search *)
DenseSearch(c, outcome) ==
    /\ calls[c].pc = "dense"
    /\ LET me == calls[c]
           r == DenseRetrieve(TheVal(inst), me.query, me.k * 2, me.filter, outcome)
       IN  calls' = [calls EXCEPT ![c] =
               IF r.err # ""
               THEN [me EXCEPT !.pc = "error", !.err = "SearchError",
                               !.steps = Append(@, "dense"), !.ext = r.ext,
                               !.dense_outcome = outcome,
                               !.dense_req = Some(DenseRequest(me.query, me.k * 2, me.filter))]
               ELSE [me EXCEPT !.pc = "bm25", !.dense = r.results,
                               !.steps = Append(@, "dense"), !.ext = r.ext,
                               !.dense_outcome = outcome,
                               !.dense_req = Some(DenseRequest(me.query, me.k * 2, me.filter))]]
    /\ UNCHANGED <<ix, cite, qa, sim, inst, ctor>>

(* retrieve, step 2: _initialize_bm25 with the dense results.  The list kept
   as corpus_metadata is the caller's dense_results list itself. *)
InitBm25(c) ==
    /\ calls[c].pc = "bm25"
    /\ inst' = Some(InitializeBm25(TheVal(inst), calls[c].dense))
    /\ calls' = [d \in Callers |->
           IF d = c
           THEN [calls[c] EXCEPT !.pc = "sparse", !.steps = Append(@, "bm25"),
                                 !.aliased = (calls[c].dense # <<>>)]
           ELSE IF calls[c].dense # <<>> THEN [calls[d] EXCEPT !.aliased = FALSE]
           ELSE calls[d]]
    /\ UNCHANGED <<ix, cite, qa, sim, ctor>>

(* retrieve, step 3: _sparse_search *)
Sparse(c) ==
    /\ calls[c].pc = "sparse"
    /\ calls' = [calls EXCEPT ![c] =
           [@ EXCEPT !.pc = "merge", !.steps = Append(@, "sparse"),
                     !.sparse_req = Some([query |-> calls[c].query,
                                          top_k |-> calls[c].k * 2]),
                     !.sparse = SparseSearch(TheVal(inst), calls[c].query, calls[c].k * 2)]]
    /\ UNCHANGED <<ix, cite, qa, sim, inst, ctor>>

(* retrieve, steps 4 and 5: _merge_results, truncation, formatting.
   normalize_scores writes into the dicts of dense_results, which
   corpus_metadata shares when this call's list is the one it holds. *)
Merge(c) ==
    /\ calls[c].pc = "merge"
    /\ LET me == calls[c]
           self == TheVal(inst)
           merged == MergeResults(self, me.dense, me.sparse)
       IN  /\ calls' = [calls EXCEPT ![c] =
                  [me EXCEPT !.pc = "done", !.steps = Append(@, "merge"),
                             !.dense = NormalizeScores(me.dense),
                             !.merged = merged,
                             !.result = FinalResults(merged, me.k)]]
           /\ inst' = IF me.aliased
                      THEN Some([self EXCEPT !.corpus_metadata = NormalizeScores(me.dense)])
                      ELSE inst
    /\ UNCHANGED <<ix, cite, qa, sim, ctor>>

(* SimpleRetriever.retrieve on a retriever of its own *)
SimpleCall(c, query, top_k, filter, outcome) ==
    /\ ~Active(c)
    /\ LET r == SimpleRetrieve(query, top_k, MaxTopK, filter, outcome)
       IN  calls' = [calls EXCEPT ![c] =
               [NewCall(@, "simple", query, top_k, filter) EXCEPT
                   !.pc = IF r.err = "" THEN "done" ELSE "error",
                   !.err = r.err, !.result = r.results, !.ext = r.ext,
                   !.k = GetTopK(top_k, MaxTopK),
                   !.dense_outcome = IF r.ext = {} THEN "" ELSE outcome]]
    /\ UNCHANGED <<ix, cite, qa, sim, inst, ctor>>

(* QueryRewritingRetriever.retrieve on a retriever of its own *)
RewritingCall(c, query, top_k, filter, skip_rewrite, llm, outcome) ==
    /\ ~Active(c)
    /\ LET r == RewritingRetrieve(query, top_k, MaxTopK, filter, skip_rewrite, llm, outcome)
       IN  calls' = [calls EXCEPT ![c] =
               [NewCall(@, "rewriting", query, top_k, filter) EXCEPT
                   !.pc = IF r.err = "" THEN "done" ELSE "error",
                   !.err = r.err, !.result = r.results, !.ext = r.ext,
                   !.k = GetTopK(top_k, MaxTopK),
                   !.dense_outcome = IF r.ext \subseteq {"llm"} THEN "" ELSE outcome,
                   !.llm_outcome = IF "llm" \notin r.ext THEN ""
                                   ELSE IF IsNone(llm) THEN "raised" ELSE "returned",
                   !.base = r.base]]
    /\ UNCHANGED <<ix, cite, qa, sim, inst, ctor>>

(* calls on one instance, one after another *)
Next ==
    \/ \E dk \in DenseKinds, w \in WeightPairs : Construct(MaxTopK, dk, w[1], w[2])
    \/ \E q \in Queries, k \in TopKArgs, f \in Filters : Begin("c1", q, k, f)
    \/ \E o \in DenseOutcomes : DenseSearch("c1", o)
    \/ InitBm25("c1")
    \/ Sparse("c1")
    \/ Merge("c1")

Spec == Init /\ [][Next]_vars

(* the three retrievers side by side: a default HybridRetriever, a
   SimpleRetriever and a QueryRewritingRetriever, called one after another *)
FewQueries == InvalidQueries \cup {Query(<<"A", "d">>, 0)}
FewTopKArgs == {None, Some(1)}
FewFilters == {None, Some("v9")}

NextRetrievers ==
    \/ Construct(MaxTopK, "SimpleRetriever", 70, 30)
    \/ \E q \in FewQueries, k \in FewTopKArgs, f \in FewFilters : Begin("c1", q, k, f)
    \/ \E o \in DenseOutcomes : DenseSearch("c1", o)
    \/ InitBm25("c1")
    \/ Sparse("c1")
    \/ Merge("c1")
    \/ \E q \in FewQueries, k \in FewTopKArgs, f \in FewFilters, o \in DenseOutcomes :
           SimpleCall("c1", q, k, f, o)
    \/ \E q \in FewQueries, k \in FewTopKArgs, f \in FewFilters, skip \in BOOLEAN,
          llm \in LlmOutcomes, o \in DenseOutcomes :
           RewritingCall("c1", q, k, f, skip, llm, o)

SpecRetrievers == Init /\ [][NextRetrievers]_vars

(* two callers on one default HybridRetriever, their steps interleaved *)
ConcQueries == {Query(<<"A", "d">>, 0), Query(<<"b">>, 0)}
ConcFilters == {None, Some("v1"), Some("v2")}

NextConcurrent ==
    \/ Construct(MaxTopK, "SimpleRetriever", 70, 30)
    \/ \E c \in Callers, q \in ConcQueries, f \in ConcFilters : Begin(c, q, None, f)
    \/ \E c \in Callers, o \in DenseOutcomes : DenseSearch(c, o)
    \/ \E c \in Callers : InitBm25(c)
    \/ \E c \in Callers : Sparse(c)
    \/ \E c \in Callers : Merge(c)

SpecConcurrent == Init /\ [][NextConcurrent]_vars

----------------------------------------------------------------------------
(* CitationHandler calls on a text drawn at the start *)

InitCitations ==
    /\ sim = <<2, 2, 2, 2>>
    /\ inst = None
    /\ ctor = NoCtor
    /\ calls = [c \in Callers |-> IdleCall]
    /\ cite \in {[NoCite EXCEPT !.text = t] : t \in Texts}
    /\ qa = NoQA
    /\ ix = NoIndex

(* extract_citations(text) *)
ExtractCitationsCall ==
    /\ cite.op = "none"
    /\ cite' = [cite EXCEPT !.op = "extract_citations",
                            !.ids = ExtractCitations(cite.text)]
    /\ UNCHANGED <<ix, sim, inst, ctor, calls, qa>>

(* add_source_info(text, chunks) *)
AddSourceInfoCall(chunks) ==
    /\ cite.op = "none"
    /\ cite' = [cite EXCEPT !.op = "add_source_info", !.chunks = chunks,
                            !.info = Some(AddSourceInfo(cite.text, chunks))]
    /\ UNCHANGED <<ix, sim, inst, ctor, calls, qa>>

(* remove_citations(text) *)
RemoveCitationsCall ==
    /\ cite.op = "none"
    /\ cite' = [cite EXCEPT !.op = "remove_citations",
                            !.clean = RemoveCitations(cite.text)]
    /\ UNCHANGED <<ix, sim, inst, ctor, calls, qa>>

NextCitations ==
    \/ ExtractCitationsCall
    \/ \E chunks \in ChunkLists : AddSourceInfoCall(chunks)
    \/ RemoveCitationsCall

SpecCitations == InitCitations /\ [][NextCitations]_vars

----------------------------------------------------------------------------
(* QAChain calls, one after another on one chain *)

FilterMatches(video_id) ==
    \E i \in 1..NumVectors : MatchesFilter(StoredVectors[i], VideoFilter(video_id))

(* the record of a request from its arguments and what the chain call left *)
RequestOf(op, self, question, video_id, top_k, outcome, gen_err, o) ==
    [NoRequest EXCEPT
        !.op = op, !.question = question, !.video_id = video_id, !.top_k = top_k,
        !.retriever_type = self.retriever_type,
        !.include_citations = self.include_citations,
        !.dense_outcome = outcome, !.gen_err = gen_err,
        !.filter_matches = FilterMatches(video_id),
        !.raised = o.raised, !.cause = o.cause, !.result = o.result,
        !.yields = o.yields, !.chunks = o.chunks, !.prompt = o.prompt,
        !.llm_calls = o.llm_calls, !.cited = o.cited]

(* QAChain(retriever_type, top_k, include_citations) *)
NewChain(retriever_type, top_k, include_citations) ==
    /\ IsNone(qa.chain)
    /\ qa.req.op = "none"
    /\ IF retriever_type \in RetrieverTypes
       THEN qa' = [qa EXCEPT !.chain =
                       Some(NewQAChain(retriever_type, top_k, include_citations))]
       ELSE qa' = [qa EXCEPT !.req =
                       [NoRequest EXCEPT !.op = "QAChain", !.raised = "ValueError",
                                         !.retriever_type = retriever_type]]
    /\ UNCHANGED <<ix, sim, inst, ctor, calls, cite>>

(* chain.answer(question, video_id, top_k) *)
AnswerCall(question, video_id, top_k, rewrite, outcome, gen) ==
    /\ ~IsNone(qa.chain)
    /\ TheVal(qa.chain).retriever_type # "rewriting" => rewrite = None
    /\ \E self \in {TheVal(qa.chain)} :
       \E o \in {QAAnswer(self, question, video_id, top_k, rewrite, outcome, gen)} :
           qa' = [chain |-> Some([self EXCEPT !.retriever = o.retriever]),
                  req |-> RequestOf("answer", self, question, video_id, top_k,
                                    outcome, gen.err, o)]
    /\ UNCHANGED <<ix, sim, inst, ctor, calls, cite>>

(* chain.answer_streaming(question, video_id, top_k), iterated to its end *)
AnswerStreamingCall(question, video_id, top_k, rewrite, outcome, stream) ==
    /\ ~IsNone(qa.chain)
    /\ TheVal(qa.chain).retriever_type # "rewriting" => rewrite = None
    /\ \E self \in {TheVal(qa.chain)} :
       \E o \in {QAAnswerStreaming(self, question, video_id, top_k, rewrite, outcome,
                                   stream)} :
           qa' = [chain |-> Some([self EXCEPT !.retriever = o.retriever]),
                  req |-> RequestOf("answer_streaming", self, question, video_id, top_k,
                                    outcome, stream.err, o)]
    /\ UNCHANGED <<ix, sim, inst, ctor, calls, cite>>

QAQuestions == {Query(<<"A", "d">>, 0), Query(<<>>, MinQuestionChars)}
QAVideoIds == {None, Some(""), Some("v9")}
QATopKs == {None, Some(0), Some(1)}
QADenseOutcomes == {"ok", "query_fails"}
QARewrites == {None, Some(Query(<<"b">>, 1))}

(* what the completion call returns: "[Chunk 0] [Chunk 0] [Chunk 5]" with
   a trailing space, "A", or an exception *)
GenOutcomes ==
    {[err |-> "", text |-> Marker(<<" ">>, <<"0">>) \o <<" ">> \o Marker(<<" ">>, <<"0">>)
                             \o <<" ">> \o Marker(<<" ">>, <<"5">>) \o <<" ">>],
     [err |-> "", text |-> <<"A">>],
     [err |-> "APIError", text |-> <<>>]}

StreamOutcomes ==
    {[err |-> "", pieces |-> <<<<"A">>, <<" ">> \o Marker(<<" ">>, <<"0">>)>>],
     [err |-> "APIError", pieces |-> <<<<"A">>>>],
     [err |-> "APIError", pieces |-> <<>>]}

(* similarity tables of the QAChain runs: with the first the two best
   chunks are of video v1, with the second they are chunk 0 of v1 and
   chunk 0 of v2 *)
QASimTables == {<<3, 2, 2, 1>>, <<3, 2, 2, 3>>}

InitQA ==
    /\ sim \in QASimTables
    /\ inst = None
    /\ ctor = NoCtor
    /\ calls = [c \in Callers |-> IdleCall]
    /\ cite = NoCite
    /\ qa = NoQA
    /\ ix = NoIndex

NextQA ==
    \/ \E t \in RetrieverTypes \cup {"dense"}, ic \in BOOLEAN : NewChain(t, MaxTopK, ic)
    \/ \E q \in QAQuestions, v \in QAVideoIds, k \in QATopKs, rw \in QARewrites,
          o \in QADenseOutcomes, g \in GenOutcomes :
           AnswerCall(q, v, k, rw, o, g)
    \/ \E q \in QAQuestions, v \in QAVideoIds, k \in QATopKs, rw \in QARewrites,
          o \in QADenseOutcomes, s \in StreamOutcomes :
           AnswerStreamingCall(q, v, k, rw, o, s)

SpecQA == InitQA /\ [][NextQA]_vars

----------------------------------------------------------------------------
(* The /query routes.  Each request builds a QAChain of its own, so a run
   is one request. *)

(* QueryRequest validation by the framework before the route runs; "" stands
   for a video id that is not of the 11-character form *)
RequestInvalid(request) ==
    \/ StrLen(request.question) < MinQuestionChars
    \/ StrLen(request.question) > MaxQuestionChars
    \/ ~IsNone(request.video_id) /\ TheVal(request.video_id) = ""
    \/ request.retriever_type \notin RetrieverTypes
    \/ ~IsNone(request.top_k)
           /\ (TheVal(request.top_k) < 1 \/ TheVal(request.top_k) > MaxRequestTopK)

RequestTopK(request) ==
    IF IsNone(request.top_k) THEN DefaultTopK ELSE TheVal(request.top_k)

(* the record of a request the framework rejected: status 422 *)
Rejected422(op, request) ==
    [NoRequest EXCEPT !.op = op, !.question = request.question,
         !.video_id = request.video_id, !.top_k = request.top_k,
         !.retriever_type = request.retriever_type,
         !.include_citations = request.include_citations,
         !.status = 422, !.handler = "RequestValidationError"]

(* query_video: the except clauses in their order, each raising
   HTTPException with status 500 *)
ExceptClauses == <<"SearchError", "LLMError", "RAGException", "Exception">>

HandlerOf(cls) ==
    ExceptClauses[CHOOSE i \in 1..Len(ExceptClauses) :
        /\ IsInstance(cls, ExceptClauses[i])
        /\ \A j \in 1..(i - 1) : ~IsInstance(cls, ExceptClauses[j])]

StatusOf(handler) == 500

(* QueryResponse: the fields without a default *)
RequiredResponseFields ==
    {"question", "answer", "retrieved_chunks", "retriever_type",
     "duration_seconds", "timestamp"}

(* query_video after chain.answer: the timestamp added when missing, then
   the QueryResponse built from it; the dict, and the except clause taken ("" for
   none) *)
WithTimestamp(result) ==
    IF "timestamp" \in DOMAIN result THEN result ELSE Put(result, "timestamp", "now")

RouteHandler(o) ==
    IF o.raised # "" THEN HandlerOf(o.raised)
    ELSE IF RequiredResponseFields \subseteq DOMAIN WithTimestamp(TheVal(o.result)) THEN ""
    ELSE HandlerOf("ValidationError")

(* POST /query *)
QueryVideo(request, rewrite, outcome, gen) ==
    /\ qa.req.op = "none"
    /\ request.retriever_type # "rewriting" => rewrite = None
    /\ IF RequestInvalid(request)
       THEN qa' = [qa EXCEPT !.req = Rejected422("POST /query", request)]
       ELSE \E chain \in {NewQAChain(request.retriever_type, RequestTopK(request),
                                     request.include_citations)} :
            \E o \in {QAAnswer(chain, request.question, request.video_id,
                               Some(RequestTopK(request)), rewrite, outcome, gen)} :
                qa' = [qa EXCEPT !.req =
                    [RequestOf("POST /query", chain, request.question, request.video_id,
                               request.top_k, outcome, gen.err, o) EXCEPT
                        !.result = IF o.raised # "" THEN None
                                   ELSE Some(WithTimestamp(TheVal(o.result))),
                        !.handler = RouteHandler(o),
                        !.status = IF RouteHandler(o) = "" THEN 200
                                   ELSE StatusOf(RouteHandler(o))]]
    /\ UNCHANGED <<ix, sim, inst, ctor, calls, cite>>

(* query_video_streaming.generate: a chunk event per string the chain
   yields, then the done event, or the error event when the chain raises *)
StreamEvents(o) ==
    [i \in 1..Len(o.yields) |-> [event |-> "chunk", chunk |-> o.yields[i]]]
        \o (IF o.raised # "" THEN <<[event |-> "error", chunk |-> <<o.raised>>]>>
            ELSE <<[event |-> "done", chunk |-> <<>>]>>)

(* POST /query/stream, the response read to its end *)
QueryVideoStreaming(request, rewrite, outcome, stream) ==
    /\ qa.req.op = "none"
    /\ request.retriever_type # "rewriting" => rewrite = None
    /\ IF RequestInvalid(request)
       THEN qa' = [qa EXCEPT !.req = Rejected422("POST /query/stream", request)]
       ELSE \E chain \in {NewQAChain(request.retriever_type, RequestTopK(request), FALSE)} :
            \E o \in {QAAnswerStreaming(chain, request.question, request.video_id,
                                        Some(RequestTopK(request)), rewrite, outcome,
                                        stream)} :
                qa' = [qa EXCEPT !.req =
                    [RequestOf("POST /query/stream", chain, request.question,
                               request.video_id, request.top_k, outcome, stream.err, o)
                     EXCEPT !.status = 200, !.events = StreamEvents(o)]]
    /\ UNCHANGED <<ix, sim, inst, ctor, calls, cite>>

RouteQuestions == QAQuestions \cup {Query(<<"b">>, 0)}
RouteVideoIds == {None, Some(""), Some("v1"), Some("v9")}
RouteTopKs == {None, Some(0), Some(1)}

QueryRequests ==
    [question : RouteQuestions, video_id : RouteVideoIds,
     retriever_type : RetrieverTypes \cup {"dense"}, top_k : RouteTopKs,
     include_citations : BOOLEAN]

NextRoutes ==
    \/ \E request \in QueryRequests, rw \in LlmOutcomes, o \in DenseOutcomes,
          g \in GenOutcomes :
           QueryVideo(request, rw, o, g)
    \/ \E request \in QueryRequests, rw \in LlmOutcomes, o \in DenseOutcomes,
          s \in StreamOutcomes :
           QueryVideoStreaming(request, rw, o, s)

SpecRoutes == InitQA /\ [][NextRoutes]_vars

----------------------------------------------------------------------------
(* Indexing operations, one after another on one index *)

(* IndexingChain(chunk_size=chunk_size).index_video(video_id) *)
IndexVideo(video_id, chunk_size, load, failed, fail_batch) ==
    /\ \E r \in {IndexVideoRun(ix.store, video_id, chunk_size, load, failed, fail_batch)} :
           ix' = [store |-> r.store,
                  latest |-> IF r.err = ""
                             THEN [ix.latest EXCEPT ![video_id] = Some(r.chunks)]
                             ELSE ix.latest,
                  last |-> [op |-> "index_video", video_id |-> video_id, err |-> r.err,
                            result |-> r.result]]
    /\ UNCHANGED <<sim, inst, ctor, calls, cite, qa>>

(* IndexingChain().delete_video_index(video_id) *)
DeleteVideoIndex(video_id, outcome) ==
    /\ \E r \in {DeleteVideoIndexRun(ix.store, video_id, outcome)} :
           ix' = [store |-> r.store,
                  latest |-> IF r.err = ""
                             THEN [ix.latest EXCEPT ![video_id] = None]
                             ELSE ix.latest,
                  last |-> [op |-> "delete_video_index", video_id |-> video_id,
                            err |-> r.err, result |-> None]]
    /\ UNCHANGED <<sim, inst, ctor, calls, cite, qa>>

IndexRequestVideoIds == IndexedVideoIds \cup {""}
ChunkSizes == {None, Some(1), Some(3)}
ServiceOutcomes == {"ok", "fails"}
EmbeddingFailures == {{}, {1}}
FailingBatches == {0, 1}

NextIndexing ==
    \/ \E v \in IndexRequestVideoIds, cs \in ChunkSizes, load \in ServiceOutcomes,
          failed \in EmbeddingFailures, fb \in FailingBatches :
           IndexVideo(v, cs, load, failed, fb)
    \/ \E v \in IndexRequestVideoIds, o \in ServiceOutcomes : DeleteVideoIndex(v, o)

InitIndexing ==
    /\ sim = <<2, 2, 2, 2>>
    /\ inst = None
    /\ ctor = NoCtor
    /\ calls = [c \in Callers |-> IdleCall]
    /\ cite = NoCite
    /\ qa = NoQA
    /\ ix = NoIndex

SpecIndexing == InitIndexing /\ [][NextIndexing]_vars

----------------------------------------------------------------------------
(* Properties of HybridRetriever.retrieve *)

Hybrid(c) == calls[c].retriever = "hybrid"
Done(c) == calls[c].pc = "done"
PastSparse(c) == calls[c].pc \in {"merge", "done"}
Self == TheVal(inst)

(* the k a call asks for: its top_k argument when given, else the instance's *)
AskedK(c) == IF IsNone(calls[c].top_k) THEN Self.top_k ELSE TheVal(calls[c].top_k)

Min(a, b) == IF a < b THEN a ELSE b
ChunkOf(r) == <<r.video_id, r.chunk_id, r.text>>
DistinctChunks(results) ==
    \A i, j \in 1..Len(results) : i # j => ChunkOf(results[i]) # ChunkOf(results[j])
SortedByScoreDesc(results) ==
    \A i, j \in 1..Len(results) : i < j => RLeq(results[j].score, results[i].score)
SameChunksInOrder(results, candidates, n) ==
    /\ Len(results) = n
    /\ \A i \in 1..n : ChunkOf(results[i]) = ChunkOf(candidates[i])

(* min-max normalisation of the i-th score of a result list; equal scores
   stay as they are *)
MinMaxOf(results, i) ==
    LET scores == [j \in 1..Len(results) |-> results[j].score]
    IN  IF RMax(scores) = RMin(scores) THEN scores[i]
        ELSE RDiv(RSub(scores[i], RMin(scores)), RSub(RMax(scores), RMin(scores)))

(* C1: when the dense stage, a SimpleRetriever over a store with distinct
   ids, supplies at least k chunks, retrieve returns exactly k results, all
   different chunks, sorted by descending score. *)
C1_ExactlyKDistinctSorted ==
    \A c \in Callers :
        (Hybrid(c) /\ Done(c) /\ Self.dense_retriever = "SimpleRetriever"
            /\ Len(calls[c].dense) >= AskedK(c))
        => /\ Len(calls[c].result) = AskedK(c)
           /\ DistinctChunks(calls[c].result)
           /\ SortedByScoreDesc(calls[c].result)

(* C2: whatever the dense and sparse stages return, retrieve returns at most
   k entries, k being the top_k argument when given and the instance default
   otherwise. *)
C2_AtMostK ==
    \A c \in Callers : (Hybrid(c) /\ Done(c)) => Len(calls[c].result) <= AskedK(c)

C2_Witness ==
    \E c \in Callers :
        /\ Hybrid(c) /\ Done(c) /\ ~IsNone(calls[c].top_k)
        /\ TheVal(calls[c].top_k) # Self.top_k
        /\ Len(calls[c].dense) > AskedK(c)
        /\ Self.dense_retriever = "IdKeeping"
        /\ Len(calls[c].result) = AskedK(c)

(* C3: every result retrieve returns carries a dense-score and a
   sparse-score field next to its fused score. *)
C3_SubScoresKept ==
    \A c \in Callers :
        (Hybrid(c) /\ Done(c))
        => \A i \in 1..Len(calls[c].result) :
               {"score", "dense_score", "sparse_score"} \subseteq DOMAIN calls[c].result[i]

(* C4: with dense_weight = 1 and sparse_weight = 0, retrieve returns the
   first k dense results in dense order, each scored with its min-max
   normalised dense score. *)
C4_DenseOnlyWeights ==
    \A c \in Callers :
        (Hybrid(c) /\ Done(c) /\ Self.dense_weight = RInt(1) /\ Self.sparse_weight = Zero)
        => LET n == Min(AskedK(c), Len(calls[c].dense))
           IN  /\ SameChunksInOrder(calls[c].result, calls[c].dense, n)
               /\ \A i \in 1..n : calls[c].result[i].score = MinMaxOf(calls[c].dense, i)

(* C5: whenever a call's dense candidate set is empty, its sparse search
   returns the empty list and retrieve returns the empty list, whatever
   earlier calls on the instance did. *)
C5_EmptyCandidatesEmptyResult ==
    \A c \in Callers :
        (Hybrid(c) /\ PastSparse(c) /\ calls[c].dense = <<>>)
        => /\ calls[c].sparse = <<>>
           /\ Done(c) => calls[c].result = <<>>

(* C7: when the dense stage fails, retrieve ends with SearchError, returns
   no list, and neither the sparse search nor the merge runs. *)
C7_DenseFailureAborts ==
    \A c \in Callers :
        (Hybrid(c) /\ calls[c].dense_outcome \in {"embedding_fails", "query_fails"})
        => /\ calls[c].pc = "error"
           /\ calls[c].err = "SearchError"
           /\ calls[c].result = <<>>
           /\ calls[c].steps = <<"dense">>

C7_Witness ==
    \E c \in Callers :
        /\ Hybrid(c) /\ calls[c].dense_outcome = "query_fails"
        /\ calls[c].pc = "error"
        /\ ~IsNone(Self.bm25)

(* C8: when the sparse search returns nothing for a non-empty dense
   candidate set, retrieve raises nothing and returns the first k dense
   candidates in the order the dense stage reported them. *)
C8_DenseOnlyFallback ==
    \A c \in Callers :
        (Hybrid(c) /\ Done(c) /\ calls[c].dense # <<>> /\ calls[c].sparse = <<>>)
        => /\ calls[c].err = ""
           /\ SameChunksInOrder(calls[c].result, calls[c].dense,
                                Min(AskedK(c), Len(calls[c].dense)))

(* C6: under every interleaving of two calls on one instance, each call's
   sparse results are chunks of that call's own dense candidates. *)
C6_SparseFromOwnCandidates ==
    \A c \in Callers :
        (Hybrid(c) /\ PastSparse(c))
        => \A i \in 1..Len(calls[c].sparse) :
               \E j \in 1..Len(calls[c].dense) :
                   ChunkOf(calls[c].sparse[i]) = ChunkOf(calls[c].dense[j])

BadQuery(query) == query.words = <<>> \/ StrLen(query) > 1000

Rejected(call) ==
    /\ call.pc = "error" /\ call.err = "ValueError"
    /\ call.ext = {} /\ call.steps = <<>> /\ call.result = <<>>

(* C9: every retriever rejects an empty, a whitespace-only and an over-long
   query with ValueError before any external call, and the rejected call
   changes nothing of the retriever or the store. *)
C9_BadQueryRejectedFirst ==
    /\ [](\A c \in Callers :
            (calls[c].retriever # "" /\ BadQuery(calls[c].query)) => Rejected(calls[c]))
    /\ [][\A c \in Callers :
            (calls'[c] # calls[c] /\ BadQuery(calls'[c].query))
            => (inst' = inst /\ sim' = sim /\ ctor' = ctor)]_vars

C9_Witness ==
    /\ ~IsNone(inst) /\ ~IsNone(Self.bm25)
    /\ \E c \in Callers :
        /\ calls[c].retriever = "rewriting"
        /\ calls[c].query = Query(<<>>, 2)
        /\ Rejected(calls[c])

OutOfRange(w) == w < 0 \/ w > 100
Skewed == ctor.status = "ok" /\ ctor.dense_weight + ctor.sparse_weight # 100

(* C10: the constructor raises ValueError and yields no instance exactly when
   a weight lies outside [0,1]; weights inside [0,1] are accepted whatever
   their sum, with a warning when the sum is off by more than 0.01; an
   instance with such weights completes every call whose dense stage
   succeeds, returns its results in descending score order, and returns the
   same list when a call is repeated. *)
C10_WeightValidation ==
    /\ ctor.status \in {"none", "ValueError"} <=> IsNone(inst)
    /\ ctor.status # "none" =>
          (ctor.status = "ValueError"
              <=> (OutOfRange(ctor.dense_weight) \/ OutOfRange(ctor.sparse_weight)))
    /\ ctor.status = "ok" =>
          /\ Self.dense_weight = Rat(ctor.dense_weight, 100)
          /\ Self.sparse_weight = Rat(ctor.sparse_weight, 100)
          /\ ctor.warned <=> Abs(ctor.dense_weight + ctor.sparse_weight - 100) > 1
    /\ Skewed =>
          \A c \in Callers :
              /\ (Hybrid(c) /\ calls[c].dense_outcome = "ok") => calls[c].err = ""
              /\ (Hybrid(c) /\ Done(c)) =>
                    /\ SortedByScoreDesc(calls[c].result)
                    /\ ~IsNone(calls[c].again) => calls[c].result = TheVal(calls[c].again)

C10_Witness ==
    /\ Skewed /\ ctor.warned
    /\ \E c \in Callers :
        /\ Hybrid(c) /\ Done(c)
        /\ ~IsNone(calls[c].again)
        /\ Len(calls[c].result) >= 1

----------------------------------------------------------------------------
(* Properties of the CitationHandler *)

(* a marker in a text, said without scanning: "[Chunk" at i, whitespace up to
   d, digits from d up to the "]" at j *)
IsMarkerSpan(text, i, d, j) ==
    /\ 1 <= i /\ i + Len(MarkerOpen) < d /\ d < j /\ j <= Len(text)
    /\ SubSeq(text, i, i + Len(MarkerOpen) - 1) = MarkerOpen
    /\ \A m \in (i + Len(MarkerOpen))..(d - 1) : IsSpace(text[m])
    /\ \A m \in d..(j - 1) : IsDigit(text[m])
    /\ text[j] = "]"

Opens(text) ==
    {i \in 1..(Len(text) - Len(MarkerOpen) + 1) :
        SubSeq(text, i, i + Len(MarkerOpen) - 1) = MarkerOpen}

MarkerSpans(text) ==
    {sp \in UNION {{i} \X (i..Len(text)) \X (i..Len(text)) : i \in Opens(text)} :
        IsMarkerSpan(text, sp[1], sp[2], sp[3])}

(* the markers with exactly one space between "Chunk" and the number *)
ExactMarkerSpans(text) ==
    {sp \in MarkerSpans(text) : sp[2] = sp[1] + Len(MarkerOpen) + 1 /\ text[sp[2] - 1] = " "}

SpanValue(text, sp) == ParseInt(SubSeq(text, sp[2], sp[3] - 1))

(* the k-th marker from the left *)
NthSpan(text, k) ==
    CHOOSE sp \in MarkerSpans(text) :
        Cardinality({other \in MarkerSpans(text) : other[1] < sp[1]}) = k - 1

Extracted == cite.op = "extract_citations"
Linked == cite.op = "add_source_info"
Removed == cite.op = "remove_citations"
Info == TheVal(cite.info)

Contains(text, piece) ==
    \E i \in 1..(Len(text) - Len(piece) + 1) : SubSeq(text, i, i + Len(piece) - 1) = piece

(* C11: extract_citations returns one integer per marker of the text, the
   k-th integer being the number of the k-th marker from the left, a marker
   cited twice appearing twice; a text without markers gives the empty
   list. *)
C11_CitationsInOrder ==
    Extracted =>
        /\ Len(cite.ids) = Cardinality(MarkerSpans(cite.text))
        /\ \A k \in 1..Len(cite.ids) :
               cite.ids[k] = SpanValue(cite.text, NthSpan(cite.text, k))

C11_Witness ==
    /\ Extracted
    /\ \E j, k \in 1..Len(cite.ids) : j < k /\ cite.ids[j] = cite.ids[k]
    /\ \E j, k \in 1..Len(cite.ids) : j < k /\ cite.ids[j] > cite.ids[k]

(* C12: add_source_info keeps every cited index in citations, resolvable or
   not; sources holds the resolvable ones and no others; num_valid_citations
   is the number of sources and num_citations the length of citations; no
   exception is raised. *)
C12_UnresolvedKeptAsData ==
    Linked =>
        /\ cite.err = ""
        /\ Info.citations = ExtractCitations(cite.text)
        /\ {Info.sources[k].chunk_id : k \in 1..Len(Info.sources)}
               = {c \in Range(Info.citations) : InChunkMap(cite.chunks, c)}
        /\ Info.num_valid_citations = Len(Info.sources)
        /\ Info.num_citations = Len(Info.citations)

C12_Witness ==
    /\ Linked
    /\ cite.text = TextThree
    /\ Info.citations = <<0, 2, 5>>
    /\ Info.num_citations = 3
    /\ Info.num_valid_citations = 2
    /\ Len(Info.sources) = 2

(* C13: for each resolvable index the answer cites, however often, sources
   holds exactly one entry, and num_valid_citations is the number of
   distinct resolvable indices. *)
C13_OneSourcePerDistinctIndex ==
    Linked =>
        LET resolvable == {c \in Range(Info.citations) : InChunkMap(cite.chunks, c)}
        IN  /\ \A c \in resolvable :
                   Cardinality({k \in 1..Len(Info.sources) : Info.sources[k].chunk_id = c}) = 1
            /\ Info.num_valid_citations = Cardinality(resolvable)

(* "Fact one. Fact two." *)
TextFactsClean ==
    <<"F", "a", "c", "t", " ", "o", "n", "e", ".", " ",
      "F", "a", "c", "t", " ", "t", "w", "o", ".">>

(* C14: remove_citations("Fact one [Chunk 0]. Fact two [Chunk 1].") is
   "Fact one. Fact two."; and for every text without whitespace before a
   full stop, the result has no space before a full stop and no double
   space. *)
C14_TextJoinsCleanly ==
    Removed =>
        /\ cite.text = TextFacts => cite.clean = TextFactsClean
        /\ ~(\E p \in 2..Len(cite.text) : cite.text[p] = "." /\ IsSpace(cite.text[p - 1]))
               => /\ ~Contains(cite.clean, <<" ", ".">>)
                  /\ ~Contains(cite.clean, <<" ", " ">>)

(* C15: the text remove_citations returns holds no marker, and
   remove_citations of it gives the same text again. *)
C15_NoMarkerLeftIdempotent ==
    Removed =>
        /\ ExtractCitations(cite.clean) = <<>>
        /\ RemoveCitations(cite.clean) = cite.clean

(* C16 as stated: extract_citations extracts a number only from a marker
   with exactly one space between "Chunk" and the number. *)
C16_ExactFormOnly ==
    Extracted =>
        Range(cite.ids) = {SpanValue(cite.text, sp) : sp \in ExactMarkerSpans(cite.text)}

(* C16, amended: extract_citations extracts a number exactly from the
   markers "[Chunk", one or more whitespace characters, digits, "]";
   "[chunk 3]" and "[Chunk3]" give nothing, "[Chunk  3]" and "[Chunk<tab>3]"
   give 3. *)
C16_WhitespaceRunForm ==
    Extracted =>
        /\ Range(cite.ids) = {SpanValue(cite.text, sp) : sp \in MarkerSpans(cite.text)}
        /\ cite.text \in {Marker(<<>>, <<"3">>),
                          <<"[", "c", "h", "u", "n", "k", " ", "3", "]">>}
               => cite.ids = <<>>
        /\ cite.text \in {Marker(<<" ", " ">>, <<"3">>), TextTab} => cite.ids = <<3>>

C16_Witness ==
    /\ Extracted
    /\ cite.text = Marker(<<" ", " ">>, <<"3">>) \o <<" ">> \o Marker(<<>>, <<"3">>)
    /\ cite.ids = <<3>>

----------------------------------------------------------------------------
(* Properties of the QAChain and of the /query routes *)

Req == qa.req

(* the request got past validation and its retrieval met no failing service *)
RetrievalRan == ~ValidateQueryRaises(Req.question) /\ Req.dense_outcome = "ok"

(* where a request failed, from what was asked and what the services did *)
ValidationFailed == ValidateQueryRaises(Req.question)
RetrievalFailed == ~ValidateQueryRaises(Req.question) /\ Req.dense_outcome # "ok"
GenerationFailed == Req.llm_calls = 1 /\ Req.gen_err # ""

IsErrorMessage(text) ==
    Len(text) >= Len(ErrorPrefix) /\ SubSeq(text, 1, Len(ErrorPrefix)) = ErrorPrefix

(* C17: on every answer call of a chain, the first or a later one, with any
   retriever type: when the video filter matches no stored chunk and no
   service fails, answer raises nothing, does not call the LLM and returns
   the fixed "I couldn't find any relevant information" answer with empty
   sources. *)
C17_NoChunksCannedAnswer ==
    Req.op = "answer" /\ RetrievalRan /\ ~Req.filter_matches =>
        /\ Req.raised = ""
        /\ Req.llm_calls = 0
        /\ ~IsNone(Req.result)
        /\ TheVal(Req.result).answer = CannedAnswer
        /\ TheVal(Req.result).sources = <<>>

(* C18: on POST /query, a question the retriever's validation rejects
   reaches the route as a validation error and gets a 4xx status; a
   retrieval failure reaches it as a retrieval error, a generation failure
   as a generation error, each handled by its own except clause with a 5xx
   status. *)
C18_FailureKindsPreserved ==
    Req.op = "POST /query" /\ Req.handler # "RequestValidationError" =>
        /\ ValidationFailed =>
               /\ Req.raised \in {"ValueError", "ValidationError"}
               /\ Req.status \in 400..499
        /\ RetrievalFailed =>
               /\ IsInstance(Req.raised, "RetrievalError")
               /\ Req.handler = "SearchError"
               /\ Req.status \in 500..599
        /\ GenerationFailed =>
               /\ IsInstance(Req.raised, "GenerationError")
               /\ Req.handler = "LLMError"
               /\ Req.status \in 500..599

(* C19: whenever answer_streaming builds a prompt, whatever the chain's
   include_citations, the prompt is the template without citation
   instructions, no context part carries a "[Chunk N]" line, and no citation
   processing runs. *)
C19_StreamingWithoutCitations ==
    Req.op = "answer_streaming" /\ ~IsNone(Req.prompt) =>
        /\ TheVal(Req.prompt).template = "QA_SYSTEM_PROMPT"
        /\ \A i \in 1..Len(TheVal(Req.prompt).context) :
               TheVal(Req.prompt).context[i].label = <<>>
        /\ ~Req.cited

(* C20: on POST /query/stream, when retrieval or generation fails the chain
   raises to the route, no string it yielded is an error message, and the
   route sends no done event. *)
C20_StreamFailureSurfaces ==
    Req.op = "POST /query/stream" /\ (RetrievalFailed \/ GenerationFailed) =>
        /\ Req.raised # ""
        /\ \A i \in 1..Len(Req.yields) : ~IsErrorMessage(Req.yields[i])
        /\ \A i \in 1..Len(Req.events) : Req.events[i].event # "done"

----------------------------------------------------------------------------
Rewriting(c) == calls[c].retriever = "rewriting"

(* C21: rewrite_query always returns a string and never raises: when the
   completion call fails it returns the original query, and retrieve then
   runs the base retriever with the original query and the caller's top_k
   (the instance's when the caller gave none) and filter; no call of the
   rewriting retriever ends with an error of the rewriting step. *)
C21_RewriteFallsBack ==
    \A c \in Callers :
        /\ Rewriting(c) => calls[c].err \in {"", "ValueError", "SearchError"}
        /\ (Rewriting(c) /\ calls[c].llm_outcome # "") =>
              /\ ~IsNone(calls[c].base)
              /\ "embedding" \in calls[c].ext
                    <=> ~ValidateQueryRaises(TheVal(calls[c].base).query)
        /\ (Rewriting(c) /\ calls[c].llm_outcome = "raised") =>
              /\ TheVal(calls[c].base) =
                    [query |-> calls[c].query,
                     top_k |-> Some(GetTopK(calls[c].top_k, MaxTopK)),
                     filter |-> calls[c].filter]
              /\ "embedding" \in calls[c].ext
              /\ calls[c].dense_outcome = "ok" =>
                    /\ calls[c].err = ""
                    /\ \A i \in 1..Len(calls[c].result) :
                          calls[c].result[i].rewritten_query = calls[c].query

C21_Witness ==
    \E c \in Callers :
        /\ Rewriting(c) /\ calls[c].llm_outcome = "raised"
        /\ calls[c].top_k = Some(1) /\ calls[c].filter = None
        /\ Done(c) /\ Len(calls[c].result) = 1

----------------------------------------------------------------------------
(* Properties of _merge_results, normalize_scores and _sparse_search *)

ChunksOf(results) == {ChunkOf(results[i]) : i \in 1..Len(results)}
EntriesOf(results, chunk) == {i \in 1..Len(results) : ChunkOf(results[i]) = chunk}
AllEqual(results) == \A i, j \in 1..Len(results) : results[i].score = results[j].score

(* the normalised score of a chunk on one side: its min-max normalised
   score, its own score when all scores of the side are equal, 0 when the
   side does not hold it *)
SideScore(results, chunk) ==
    IF EntriesOf(results, chunk) = {} THEN Zero
    ELSE MinMaxOf(results, CHOOSE i \in EntriesOf(results, chunk) : TRUE)

FusedScore(c, chunk) ==
    RAdd(RMul(SideScore(calls[c].dense, chunk), Self.dense_weight),
         RMul(SideScore(calls[c].sparse, chunk), Self.sparse_weight))

(* C22: for every distinct chunk in the dense or the sparse result set the
   merged list holds exactly one entry, and its fused score is
   normalizedDense * dense_weight + normalizedSparse * sparse_weight, a
   side that does not hold the chunk contributing 0. *)
C22_OneEntryFusedScore ==
    \A c \in Callers :
        (Hybrid(c) /\ Done(c)) =>
            \A chunk \in ChunksOf(calls[c].dense) \cup ChunksOf(calls[c].sparse) :
                /\ Cardinality(EntriesOf(calls[c].merged, chunk)) = 1
                /\ \A i \in EntriesOf(calls[c].merged, chunk) :
                      calls[c].merged[i].hybrid_score = FusedScore(c, chunk)

(* C23: when all scores of one side are equal (a single result included)
   normalization leaves the scores as they are, so the score the fusion step
   multiplies by that side's weight is each result's original score: the
   merged entry of a chunk of such a side has that score times the weight
   plus the other side's part. *)
C23_EqualScoresKeptInFusion ==
    \A c \in Callers :
        (Hybrid(c) /\ Done(c) /\ Self.dense_retriever = "IdKeeping") =>
            /\ (calls[c].dense # <<>> /\ AllEqual(calls[c].dense)) =>
                  \A i \in 1..Len(calls[c].merged) :
                      ChunkOf(calls[c].merged[i]) \in ChunksOf(calls[c].dense) =>
                          RSub(calls[c].merged[i].hybrid_score,
                               RMul(SideScore(calls[c].sparse, ChunkOf(calls[c].merged[i])),
                                    Self.sparse_weight))
                            = RMul(calls[c].merged[i].dense_score, Self.dense_weight)
            /\ (calls[c].sparse # <<>> /\ AllEqual(calls[c].sparse)) =>
                  \A i \in 1..Len(calls[c].merged) :
                      ChunkOf(calls[c].merged[i]) \in ChunksOf(calls[c].sparse) =>
                          RSub(calls[c].merged[i].hybrid_score,
                               RMul(SideScore(calls[c].dense, ChunkOf(calls[c].merged[i])),
                                    Self.dense_weight))
                            = RMul(calls[c].merged[i].sparse_score, Self.sparse_weight)

(* the lists normalize_scores is given by a call that reached the merge *)
Sides(c) == {calls[c].dense, calls[c].sparse}

Spread(results) == results # <<>> /\ ~AllEqual(results)

(* C24: for a non-empty list with max > min, normalize_scores gives each
   score the value (score - min) / (max - min): every value lies in [0,1],
   the minimum maps to 0, the maximum to 1, and a strictly larger score gets
   a strictly larger value; the empty list gives the empty list; the list
   keeps its length, its order and its entries' other fields. *)
C24_MinMaxNormalization ==
    \A c \in Callers :
        (Hybrid(c) /\ PastSparse(c)) =>
            \A side \in Sides(c) :
                LET out == NormalizeScores(side)
                    scores == [i \in 1..Len(side) |-> side[i].score]
                IN  /\ Len(out) = Len(side)
                    /\ side = <<>> => out = <<>>
                    /\ Spread(side) =>
                          \A i \in 1..Len(side) :
                              /\ out[i] = Put(side[i], "score_normalized", out[i].score_normalized)
                              /\ out[i].score_normalized =
                                    RDiv(RSub(scores[i], RMin(scores)),
                                         RSub(RMax(scores), RMin(scores)))
                              /\ RLeq(Zero, out[i].score_normalized)
                              /\ RLeq(out[i].score_normalized, RInt(1))
                              /\ scores[i] = RMin(scores) => out[i].score_normalized = Zero
                              /\ scores[i] = RMax(scores) => out[i].score_normalized = RInt(1)
                              /\ \A j \in 1..Len(side) :
                                    RLess(scores[i], scores[j]) =>
                                        RLess(out[i].score_normalized, out[j].score_normalized)

C24_Witness ==
    \E c \in Callers :
        /\ Hybrid(c) /\ Done(c)
        /\ Spread(calls[c].dense) /\ Len(calls[c].dense) >= 3
        /\ Spread(calls[c].sparse)
        /\ \E i \in 1..Len(calls[c].dense) :
              calls[c].dense[i].score_normalized \notin {Zero, RInt(1)}

(* the position in corpus_metadata of a sparse result of a call whose index
   is still the one it searched *)
CorpusPos(self, result) ==
    CHOOSE idx \in 1..Len(self.corpus_metadata) :
        ChunkOf(self.corpus_metadata[idx]) = ChunkOf(result)

BmScores(c) == GetScores(TheVal(Self.bm25), Tokenize(calls[c].query.words))

(* the corpus positions with a positive score that a sparse list leaves out *)
LeftOut(c, out) ==
    {idx \in 1..Len(Self.corpus) :
        /\ RLess(Zero, BmScores(c)[idx])
        /\ \A i \in 1..Len(out) : CorpusPos(Self, out[i]) # idx}

(* C25: _sparse_search(query, top_k) returns at most top_k results, none
   with a score <= 0, in descending score order with equal scores in corpus
   order, a candidate left out ranking after every one returned; it leaves
   the index as it is, and a second call with the same query on that index
   returns the same list. *)
C25_SparseSearchBounded ==
    [][\A c \in Callers :
          (calls[c].pc = "sparse" /\ calls'[c].pc = "merge") =>
              LET out == calls'[c].sparse
                  req == TheVal(calls'[c].sparse_req)
              IN  /\ Len(out) <= req.top_k
                  /\ \A i \in 1..Len(out) :
                        /\ RLess(Zero, out[i].score)
                        /\ out[i].score = BmScores(c)[CorpusPos(Self, out[i])]
                        /\ \A idx \in LeftOut(c, out) :
                              \/ RLess(BmScores(c)[idx], out[i].score)
                              \/ /\ BmScores(c)[idx] = out[i].score
                                 /\ CorpusPos(Self, out[i]) < idx
                  /\ \A i, j \in 1..Len(out) :
                        i < j =>
                          /\ RLeq(out[j].score, out[i].score)
                          /\ out[i].score = out[j].score =>
                                CorpusPos(Self, out[i]) < CorpusPos(Self, out[j])
                  /\ inst' = inst
                  /\ SparseSearch(TheVal(inst'), req.query, req.top_k) = out]_vars

C25_Witness ==
    \E c \in Callers :
        /\ Hybrid(c) /\ PastSparse(c) /\ ~IsNone(Self.bm25)
        /\ Len(calls[c].sparse) = TheVal(calls[c].sparse_req).top_k
        /\ \E idx \in LeftOut(c, calls[c].sparse), i \in 1..Len(calls[c].sparse) :
              BmScores(c)[idx] = calls[c].sparse[i].score

(* the ids of the dense results followed by those of the sparse results, and
   the place where an id is first seen in them *)
SeenIds(c) ==
    [i \in 1..(Len(calls[c].dense) + Len(calls[c].sparse)) |->
        IF i <= Len(calls[c].dense) THEN DocId(calls[c].dense[i])
        ELSE DocId(calls[c].sparse[i - Len(calls[c].dense)])]

FirstSeen(c, id) == CHOOSE i \in 1..Len(SeenIds(c)) :
                        /\ SeenIds(c)[i] = id
                        /\ \A j \in 1..(i - 1) : SeenIds(c)[j] # id

(* C26: the merged list is sorted by descending fused score, and entries
   with equal fused score stand in the order in which their ids were first
   seen: dense results in dense order, then the sparse results not among
   them in sparse order. *)
C26_MergedSortedStable ==
    \A c \in Callers :
        (Hybrid(c) /\ Done(c)) =>
            /\ Range(SeenIds(c)) = {DocId(calls[c].merged[i]) : i \in 1..Len(calls[c].merged)}
            /\ \A i, j \in 1..Len(calls[c].merged) :
                  i < j =>
                    /\ RLeq(calls[c].merged[j].hybrid_score, calls[c].merged[i].hybrid_score)
                    /\ calls[c].merged[i].hybrid_score = calls[c].merged[j].hybrid_score =>
                          FirstSeen(c, DocId(calls[c].merged[i]))
                            < FirstSeen(c, DocId(calls[c].merged[j]))

C26_Witness ==
    \E c \in Callers :
        /\ Hybrid(c) /\ Done(c)
        /\ Len(calls[c].merged) = 4
        /\ calls[c].merged[1].hybrid_score # calls[c].merged[2].hybrid_score
        /\ calls[c].merged[2].hybrid_score = calls[c].merged[3].hybrid_score
        /\ calls[c].sparse # <<>>

TextsOf(results) == [i \in 1..Len(results) |-> Get(results[i], "text", <<>>)]

(* C27: for effective top-K k, retrieve asks the dense retriever for exactly
   2*k candidates with the caller's query and filter, builds the lexical
   index over exactly the texts of those dense candidates, and asks the
   sparse search for 2*k candidates with no filter; the merge runs only
   after both have returned. *)
C27_StepOrder ==
    /\ [](\A c \in Callers :
            Hybrid(c) =>
              /\ ~IsNone(calls[c].dense_req) =>
                    TheVal(calls[c].dense_req) =
                        DenseRequest(calls[c].query, 2 * AskedK(c), calls[c].filter)
              /\ ~IsNone(calls[c].sparse_req) =>
                    /\ TheVal(calls[c].sparse_req) =
                          [query |-> calls[c].query, top_k |-> 2 * AskedK(c)]
                    /\ SubSeq(calls[c].steps, 1, 3) = <<"dense", "bm25", "sparse">>
              /\ Done(c) => calls[c].steps = <<"dense", "bm25", "sparse", "merge">>)
    /\ [][\A c \in Callers :
            (calls[c].pc = "bm25" /\ calls'[c].pc = "sparse") =>
                /\ TheVal(inst').corpus = TextsOf(calls[c].dense)
                /\ Len(calls[c].dense) <= 2 * AskedK(c)]_vars

----------------------------------------------------------------------------
(* Properties of the prompt labels and of the response *)

Context == TheVal(Req.prompt).context
LabelOf(chunk_id) == Marker(<<" ">>, FormatInt(chunk_id))
Labelled(chunk_id) == {i \in 1..Len(Context) : Context[i].label = LabelOf(chunk_id)}

(* C28: in QAChain.answer with citations enabled every label [Chunk N] of
   the prompt stands over exactly one retrieved chunk, and add_source_info
   resolves a cited N to that chunk, also when the retrieved list holds
   chunks of several videos. *)
C28_LabelsResolveToOneChunk ==
    (Req.op = "answer" /\ Req.include_citations /\ ~IsNone(Req.prompt)) =>
        /\ Len(Context) = Len(Req.chunks)
        /\ \A i \in 1..Len(Context) :
              /\ Context[i].text = Req.chunks[i].text
              /\ Labelled(Req.chunks[i].chunk_id) = {i}
        /\ ~IsNone(Req.result) =>
              \A k \in 1..Len(TheVal(Req.result).sources) :
                  LET source == TheVal(Req.result).sources[k]
                  IN  \A i \in Labelled(source.chunk_id) :
                          /\ source.text = Req.chunks[i].text
                          /\ source.video_id = Req.chunks[i].video_id

(* C29: every dict QAChain.answer returns, the zero-chunk result included,
   has the fields retrieved_chunks and duration_seconds that QueryResponse
   requires, so POST /query on a question that retrieves nothing answers
   200 with the canned answer and not with an error. *)
C29_EveryResultIsAResponse ==
    (Req.op = "POST /query" /\ Req.status # 422 /\ Req.raised = "") =>
        /\ {"retrieved_chunks", "duration_seconds"} \subseteq DOMAIN TheVal(Req.result)
        /\ Req.status = 200 /\ Req.handler = ""
        /\ Req.chunks = <<>> => TheVal(Req.result).answer = CannedAnswer

----------------------------------------------------------------------------
(* Properties of the index *)

StoredFor(video_id) == {v \in ix.store : v.metadata.video_id = video_id}

(* the vectors of the chunks the last successful index_video run of a video
   produced, the text cut to the length the metadata keeps; none before the
   first run and after a delete *)
ProducedFor(video_id) ==
    IF IsNone(ix.latest[video_id]) THEN {}
    ELSE {[id |-> <<video_id, chunk.chunk_id>>, values |-> "values",
           metadata |-> [video_id |-> video_id, chunk_id |-> chunk.chunk_id,
                         text |-> Take(chunk.text, MetadataTextLimit)]] :
             chunk \in Range(TheVal(ix.latest[video_id]))}

(* C30: after any sequence of index_video and delete_video_index the vectors
   stored for a video are exactly the chunks its latest successful
   index_video run produced, so re-indexing leaves no chunk of an earlier
   run; delete_video_index(v) removes every vector of v and no vector of
   another video. *)
C30_StoreHoldsLatestRun ==
    /\ [](\A v \in IndexedVideoIds : StoredFor(v) = ProducedFor(v))
    /\ [][(ix'.last.op = "delete_video_index" /\ ix'.last.err = "") =>
            ix'.store = {v \in ix.store : v.metadata.video_id # ix'.last.video_id}]_vars

====
